---- MODULE Spec2Model ----
(***************************************************************************)
(* Shelf-space allocation engine of Planogram_Project.                     *)
(*                                                                         *)
(* One create_planogram run of a ProductOptimizer (five strategies) or of  *)
(* a BundleOptimizer over a Store, as a state machine.  Lengths are whole  *)
(* centimetres; every width, shelf width and gap of the inputs is even, so *)
(* the one halving of the code (bundle centring) is exact.  A utilization  *)
(* is kept as its numerator total_used; the percentage of the code is      *)
(* total_used * 100 / shelf.width and is compared by cross-multiplication. *)
(* Scores are kept in thousandths.                                         *)
(***************************************************************************)
EXTENDS Integers, Sequences, FiniteSets

\* ---------------------------------------------------------------- bounds
MaxProducts == 3
\* the longest list of the runs that call create_planogram twice
MaxTwice == 2
\* the longest list of the runs of the sales_velocity strategy alone
MaxSales == 3
\* the number of calls of the runs that call the shelf routines one by one
MaxCalls == 3

\* ------------------------------------------------- optional attribute tags
\* A Python attribute that was never set (hasattr is false) and one set to None.
Absent == -1
NoneVal == -2

\* ---------------------------------------------------------------- helpers
Max(a, b) == IF a >= b THEN a ELSE b
Min(a, b) == IF a <= b THEN a ELSE b

RECURSIVE SumSeq(_)
SumSeq(s) == IF s = <<>> THEN 0 ELSE Head(s) + SumSeq(Tail(s))

SeqsUpTo(S, n) == UNION {[1..m -> S] : m \in 0..n}

Range(s) == {s[i] : i \in 1..Len(s)}

\* list.sort / sorted of Python: a stable sort.  Precedes(a, b) says that a
\* sorts strictly before b; elements neither of which precedes the other keep
\* their order.  (sort(reverse=True) is stable too: equal keys keep their order.)
SortedBy(s, Precedes(_, _)) ==
    LET n == Len(s)
        Position(i) == 1 + Cardinality({j \in 1..n :
                              \/ Precedes(s[j], s[i])
                              \/ (~Precedes(s[i], s[j]) /\ j < i)})
    IN  [k \in 1..n |-> s[CHOOSE i \in 1..n : Position(i) = k]]

\* list.remove(x): drops the first element equal to x.
RECURSIVE RemoveFirst(_, _)
RemoveFirst(s, x) ==
    IF s = <<>> THEN <<>>
    ELSE IF Head(s) = x THEN Tail(s)
    ELSE <<Head(s)>> \o RemoveFirst(Tail(s), x)

\* ---------------------------------------------------------------- Product
\* ProductCategory.value strings and their lexicographic rank (used as a sort key).
Categories == {"cable", "case", "charger"}
CategoryRank(c) == CASE c = "cable" -> 1 [] c = "case" -> 2 [] c = "charger" -> 3
SeriesRank(s) == CASE s = "iPhone 15" -> 1 [] s = "iPhone 16" -> 2

\* Product._calculate_facing_limits
_calculate_facing_limits(total_qty) ==
    IF total_qty >= 400 THEN [min_facings |-> 3, max_facings |-> 6]
    ELSE IF total_qty >= 200 THEN [min_facings |-> 2, max_facings |-> 4]
    ELSE IF total_qty >= 100 THEN [min_facings |-> 2, max_facings |-> 3]
    ELSE IF total_qty >= 50 THEN [min_facings |-> 1, max_facings |-> 2]
    ELSE [min_facings |-> 1, max_facings |-> 1]

\* Product.__init__ + __post_init__: the dataclass has no price, profit or
\* avg_weekly_sales field (callers set them on the object); attach_rate
\* defaults to None and status to ProductStatus.ACTIVE.  attach_rate is kept
\* in tenths.
Product(series, category, width, height, depth, pureqty, impureqty) ==
    LET total == pureqty + impureqty
        lim == _calculate_facing_limits(total)
    IN  [product_id |-> 0, series |-> series, category |-> category,
         width |-> width, height |-> height, depth |-> depth,
         pureqty |-> pureqty, total_qty |-> total, sales_velocity |-> total,
         min_facings |-> lim.min_facings, max_facings |-> lim.max_facings,
         attach_rate |-> NoneVal, price |-> Absent, profit |-> Absent,
         avg_weekly_sales |-> Absent, status |-> "active"]

\* Product.calculate_facings("sales_based")
calculate_facings_sales_based(p) ==
    IF p.total_qty >= 1000 THEN p.max_facings
    ELSE IF p.total_qty >= 600 THEN Min(3, p.max_facings - 1)
    ELSE IF p.total_qty >= 300 THEN Min(2, p.max_facings - 2)
    ELSE IF p.total_qty >= 100 THEN 2
    ELSE p.min_facings

\* Product.calculate_facings("purity_weighted"); purity_ratio = pureqty / total_qty
calculate_facings_purity_weighted(p) ==
    LET base_facings == calculate_facings_sales_based(p)
        high == p.total_qty > 0 /\ 10 * p.pureqty >= 8 * p.total_qty
        low == p.total_qty <= 0 \/ 10 * p.pureqty <= 3 * p.total_qty
    IN  IF high THEN Min(p.max_facings, base_facings + 1)
        ELSE IF low THEN Max(p.min_facings, base_facings - 1)
        ELSE base_facings

\* Product.calculate_facings("balanced")
calculate_facings(p) ==
    Max(p.min_facings,
        (calculate_facings_sales_based(p) + calculate_facings_purity_weighted(p)) \div 2)

\* ------------------------------------------------------------------ Shelf
\* ShelfPosition
ShelfPosition(product_id, x_start, x_end, facings) ==
    [product_id |-> product_id, x_start |-> x_start, x_end |-> x_end, facings |-> facings]

\* Shelf.__init__; eye_level_score is kept in tenths.
Shelf(shelf_id, width, height, depth, y_position, shelf_type, eye_level_score) ==
    [shelf_id |-> shelf_id, width |-> width, height |-> height, depth |-> depth,
     y_position |-> y_position, shelf_type |-> shelf_type,
     eye_level_score |-> eye_level_score,
     is_eye_level |-> eye_level_score >= 8,
     is_premium |-> shelf_type \in {"premium", "promotional"}]

SumWidths(ps) == SumSeq([i \in 1..Len(ps) |-> ps[i].x_end - ps[i].x_start])

\* the end of the first position only, not of the furthest one
FirstEnd(ps) == ps[1].x_end

\* max(pos.x_end for pos in shelf.positions)
RECURSIVE MaxEnd(_)
MaxEnd(ps) == IF Len(ps) = 1 THEN ps[1].x_end ELSE Max(ps[1].x_end, MaxEnd(Tail(ps)))

\* Shelf.get_available_width: one centimetre per position, whatever gap_size is.
get_available_width(S, ps) ==
    IF ps = <<>> THEN S.width
    ELSE S.width - SumWidths(ps) - Len(ps) * 1

\* Shelf.can_fit_product
can_fit_product(S, ps, p, facings) ==
    IF p.height > S.height \/ p.depth > S.depth THEN FALSE
    ELSE p.width * facings <= get_available_width(S, ps)

\* Shelf.update_utilization: the numerator total_used (two centimetres per gap).
update_utilization(ps) ==
    IF ps = <<>> THEN 0
    ELSE SumWidths(ps) + (IF Len(ps) > 1 THEN (Len(ps) - 1) * 2 ELSE 0)

\* Shelf.optimize_positions: the positions after the call.
RECURSIVE Reposition(_, _, _)
Reposition(ps, current_x, gap) ==
    IF ps = <<>> THEN <<>>
    ELSE LET w == ps[1].x_end - ps[1].x_start
         IN  <<ShelfPosition(ps[1].product_id, current_x, current_x + w, ps[1].facings)>>
             \o Reposition(Tail(ps), current_x + w + gap, gap)

ByXStart(a, b) == a.x_start < b.x_start

\* A reflow that keeps the offset of the leftmost product instead of starting at 0.
ShiftPositions(ps, gap) ==
    IF ps = <<>> THEN ps
    ELSE LET sorted == SortedBy(ps, ByXStart)
         IN  Reposition(sorted, sorted[1].x_start + gap, gap)

optimize_positions(ps, gap) ==
    IF ps = <<>> THEN ps ELSE Reposition(SortedBy(ps, ByXStart), 0, gap)

\* Shelf.add_product: [ok, ps].  x_position is NoneVal when the argument is left out.
add_product(S, ps, p, facings, x_position) ==
    IF ~can_fit_product(S, ps, p, facings) THEN [ok |-> FALSE, ps |-> ps]
    ELSE LET x == IF x_position # NoneVal THEN x_position
                  ELSE IF ps # <<>> THEN MaxEnd(ps) + 1 ELSE 0
         IN  [ok |-> TRUE,
              ps |-> Append(ps, ShelfPosition(p.product_id, x, x + p.width * facings, facings))]

\* Shelf.get_placement_score, in thousandths.  Raises (here: the tag "raise")
\* when the shelf is premium and product.price is missing or None.
PlacementScoreRaises(S, p) == S.is_premium /\ p.price \in {Absent, NoneVal}

get_placement_score(S, p) ==
    (IF S.is_eye_level THEN 300 ELSE 10 * S.eye_level_score)
    + (IF S.is_premium /\ p.price > 50 THEN 200 ELSE 0)
    + (IF 10 * p.height >= 5 * S.height /\ 10 * p.height <= 8 * S.height THEN 200
       ELSE IF 10 * p.height > 8 * S.height THEN 100 ELSE 0)
    + (IF p.sales_velocity > 10 /\ S.eye_level_score > 7 THEN 200 ELSE 0)

\* ----------------------------------------------------------------- inputs
\* Product kinds of the runs, as the constructor returns them: the facing limits
\* are those of the sales tier (_calculate_facing_limits overwrites the
\* min_facings and max_facings arguments).  KindA and KindB have the sizes and
\* the velocities of the products of Scenario A; KindW is wide and dear; KindH sells well (min_facings 2);
\* KindN has no price, no profit, no avg_weekly_sales and attach_rate None.
\* Two different kinds never have the same composite score: the code computes
\* it in floating point, where two sums that are equal as fractions may differ
\* in the last bit, and the scores here are exact.
KindA == [Product("iPhone 16", "case", 10, 10, 5, 40, 10) EXCEPT
            !.price = 30, !.attach_rate = 5, !.avg_weekly_sales = 12]
KindB == [Product("iPhone 15", "cable", 10, 10, 5, 5, 5) EXCEPT
            !.price = 20, !.attach_rate = 0, !.avg_weekly_sales = 2]
KindW == [Product("iPhone 15", "case", 46, 10, 5, 10, 10) EXCEPT
            !.price = 60, !.attach_rate = 0, !.avg_weekly_sales = 5]
KindH == [Product("iPhone 16", "charger", 20, 20, 5, 90, 30) EXCEPT
            !.price = 40, !.profit = 25, !.attach_rate = 3, !.avg_weekly_sales = 30]
KindN == Product("iPhone 15", "cable", 10, 10, 5, 5, 5)
\* KindS is a newly listed case as wide as KindW: it sells a little less than
\* KindW and is bought with a phone half of the time.
KindS == [Product("iPhone 15", "case", 46, 10, 5, 10, 9) EXCEPT
            !.status = "new", !.price = 50, !.attach_rate = 5, !.avg_weekly_sales = 5]
Kinds == {KindA, KindB, KindW, KindH, KindN}

\* The product list given to create_planogram: product_id is the place in the list.
ProductLists ==
    {[i \in 1..Len(ks) |-> [ks[i] EXCEPT !.product_id = i]] : ks \in SeqsUpTo(Kinds, MaxProducts)}

\* Store.rules / Store.placement_rules: a key that is not in the dict is Absent
\* (or FALSE for the flags read with .get(key, False)).
NoRules ==
    [only_bestsellers |-> FALSE, max_skus_total |-> Absent,
     filter_by_sales_rank |-> FALSE, max_rank_included |-> Absent,
     min_weekly_sales |-> Absent, min_skus_per_category |-> Absent,
     max_skus_per_category |-> Absent, max_facings_per_product |-> Absent]

Store(store_type, shelves, rules, category_grouping) ==
    [store_type |-> store_type, shelves |-> shelves, rules |-> rules,
     placement_rules |-> [category_grouping |-> category_grouping]]

OneShelf == <<Shelf(1, 100, 30, 30, 100, "standard", 9)>>
TwoShelves == <<Shelf(1, 60, 30, 30, 0, "standard", 5), Shelf(2, 60, 15, 30, 35, "premium", 9)>>
ThreeShelves == <<Shelf(1, 40, 30, 30, 0, "storage", 3), Shelf(2, 40, 30, 30, 60, "standard", 5),
                  Shelf(3, 40, 30, 30, 120, "standard", 9)>>

\* bundle_data rows in the accessory_1..accessory_3 format with a frequency
\* column; <<>> stands for bundle_data None or an empty frame.
Bundle(ids, frequency) == [ids |-> ids, frequency |-> frequency]

Run(st, strat, gap, bd) == [store |-> st, strategy |-> strat, gap_size |-> gap, bundle_data |-> bd]

Strategies == {"sales_velocity", "category_grouped", "value_density", "profit_efficiency", "balanced"}

Runs ==
    {Run(Store("flagship", OneShelf, NoRules, FALSE), s, 2, <<>>) : s \in Strategies}
    \cup {Run(Store("flagship", TwoShelves, NoRules, FALSE), s, 2, <<>>) :
            s \in Strategies \ {"profit_efficiency"}}
    \cup {Run(Store("flagship", ThreeShelves, NoRules, g), "balanced", 2, <<>>) : g \in BOOLEAN}
    \cup {Run(Store("flagship", ThreeShelves, NoRules, FALSE), "category_grouped", 2, <<>>)}
    \cup {Run(Store("standard", OneShelf,
                    [NoRules EXCEPT !.min_weekly_sales = 10, !.filter_by_sales_rank = TRUE,
                                    !.max_rank_included = 2], FALSE),
              "sales_velocity", 2, <<>>)}
    \cup {Run(Store("express", OneShelf,
                    [NoRules EXCEPT !.only_bestsellers = TRUE, !.min_skus_per_category = 1,
                                    !.max_skus_per_category = 1], FALSE),
              "category_grouped", 4, <<>>)}
    \cup {Run(Store("flagship", OneShelf, NoRules, FALSE), "bundle", 2, bd) :
            bd \in {<<>>, <<Bundle(<<1, 2>>, 5)>>,
                    <<Bundle(<<1, 2>>, 3), Bundle(<<2, 3>>, 5)>>}}
    \cup {Run(Store("flagship", TwoShelves, NoRules, FALSE), "bundle", 2, bd) :
            bd \in {<<Bundle(<<1, 2>>, 5)>>, <<Bundle(<<1, 2, 3>>, 4)>>}}

\* The optimizers whose shelf routines are called one by one: a shelf that two
\* narrow products fill, and the two-shelf store.
SmallShelf == <<Shelf(1, 30, 30, 30, 100, "standard", 9)>>
\* a narrow shelf that one wide product fills above 85%, under a wider one
UnevenShelves == <<Shelf(1, 50, 30, 30, 0, "standard", 5), Shelf(2, 60, 30, 30, 35, "standard", 9)>>
ShelfKinds == {KindA, KindB, KindW}
ShelfLists ==
    {[i \in 1..3 |-> [ks[i] EXCEPT !.product_id = i]] :
        ks \in ShelfKinds \X ShelfKinds \X ShelfKinds}
ShelfRuns ==
    {Run(Store("flagship", sh, NoRules, FALSE), "sales_velocity", gap, <<>>) :
        sh \in {SmallShelf, TwoShelves, UnevenShelves}, gap \in {2}}
\* The runs that share their Product objects with a run of another
\* BundleOptimizer, which has its own store and the bundle data OtherBundleData.
PairKinds == {KindA, KindB, KindW}
PairLists ==
    {[i \in 1..3 |-> [ks[i] EXCEPT !.product_id = i]] : ks \in PairKinds \X PairKinds \X PairKinds}
PairRuns ==
    {Run(Store("flagship", sh, NoRules, FALSE), "bundle", 2,
         <<Bundle(<<1, 2>>, 3), Bundle(<<2, 3>>, 5)>>) : sh \in {OneShelf, TwoShelves}}
OtherBundleData == <<Bundle(<<1, 2>>, 9)>>

\* the gap_size arguments of Shelf.optimize_positions, and the facings asked for
Gaps == {0, 2}
Facings == {1, 2}
\* the x_position arguments of Shelf.add_product (NoneVal: left out), and the
\* shelf and the products of the runs that fill a shelf by hand
XPositions == {NoneVal, 0, 5, 30}
ReflowLists == {<<[KindA EXCEPT !.product_id = 1], [KindB EXCEPT !.product_id = 2],
                  [KindW EXCEPT !.product_id = 3]>>}
ReflowRuns == {Run(Store("flagship", OneShelf, NoRules, FALSE), "sales_velocity", 2, <<>>)}

\* The runs of the sales_velocity strategy alone, over lists that may hold the
\* new product.
SalesKinds == {KindA, KindW, KindS}
SalesLists ==
    {[i \in 1..Len(ks) |-> [ks[i] EXCEPT !.product_id = i]] : ks \in SeqsUpTo(SalesKinds, MaxSales)}
SalesRuns ==
    {Run(Store("flagship", sh, NoRules, FALSE), "sales_velocity", 2, <<>>) :
        sh \in {OneShelf, TwoShelves}}
    \cup {Run(Store("flagship", SmallShelf, NoRules, FALSE), "sales_velocity", 0, <<>>)}

\* ------------------------------------------------------------------ state
VARIABLES
    products,        \* the product list given to create_planogram
    store,           \* self.store (shelf attributes, rules); positions are below
    strategy,        \* ProductOptimizer.strategy, or "bundle" for a BundleOptimizer
    gap_size,        \* self.gap_size
    bundle_data,     \* BundleOptimizer.bundle_data
    pc,              \* where the run is
    positions,       \* shelf.positions of each shelf of the store, by place in store.shelves
    utilization,     \* shelf.utilization of each shelf (numerator, see the head)
    category_distribution,  \* self.metrics['category_distribution'] (0: no such key)
    warnings,        \* self.warnings
    self_products_placed,   \* self.products_placed of the optimizer create_planogram runs on
    queue,           \* the products still to be tried, in order (product ids)
    products_placed, \* the local list products_placed of the strategy
    products_rejected,      \* the local list products_rejected of the strategy
    category_shelf_assignments,  \* ProductOptimizer.category_shelf_assignments
    bundle_groups,   \* BundleOptimizer.bundle_groups still to be placed
    bundle_placements,      \* BundleOptimizer.bundle_placements
    bundle_frequency,       \* product.bundle_frequency of each product
    result,          \* what create_planogram returns or raises
    run,             \* the caller: which call of create_planogram on this optimizer this is
    earlier,         \* the caller: what the first call returned or raised
    call,            \* the caller: the last call of a shelf routine, with the state before it
    ret,             \* the caller: what that call returned
    other            \* where a run of another optimizer, on another store, is

vars == <<products, store, strategy, gap_size, bundle_data, pc, positions, utilization,
          category_distribution, warnings, self_products_placed, queue, products_placed,
          products_rejected, category_shelf_assignments, bundle_groups, bundle_placements,
          bundle_frequency, result, run, earlier, call, ret, other>>

inputs == <<products, store, strategy, gap_size, bundle_data>>
caller == <<run, earlier, call, ret, other>>

NumShelves == Len(store.shelves)
P(id) == products[id]

\* The part of the state the placement routines change.
Engine == [pos |-> positions, util |-> utilization, cat |-> category_distribution]

\* A warning string, by what it reports and the product, shelf or bundle size it names.
Warning(kind, ref) == [kind |-> kind, ref |-> ref]

\* ------------------------------------------------- placement primitives
\* BaseOptimizer._place_product_on_shelf, lines 172-192: the position is
\* appended, the utilization updated, the category counter raised.
AppendPosition(e, k, p, facings, x_position) ==
    LET ps == Append(e.pos[k], ShelfPosition(p.product_id, x_position,
                                             x_position + p.width * facings, facings))
    IN  [pos |-> [e.pos EXCEPT ![k] = ps],
         util |-> [e.util EXCEPT ![k] = update_utilization(ps)],
         cat |-> [e.cat EXCEPT ![p.category] = @ + facings]]

\* A placement routine that asks for no gap after the product.
PlaceWithoutEndGap(e, k, p, facings) ==
    LET S == store.shelves[k]
        x_position == IF e.pos[k] # <<>> THEN MaxEnd(e.pos[k]) + gap_size ELSE gap_size
        Fits(f) == x_position + p.width * f <= S.width
        min_facings == Max(1, p.min_facings)
    IN  IF p.height > S.height \/ p.depth > S.depth THEN [ok |-> FALSE, e |-> e]
        ELSE IF Fits(facings) THEN [ok |-> TRUE, e |-> AppendPosition(e, k, p, facings, x_position)]
        ELSE IF facings > 1 /\ facings > p.min_facings /\ Fits(min_facings)
             THEN [ok |-> TRUE, e |-> AppendPosition(e, k, p, min_facings, x_position)]
        ELSE [ok |-> FALSE, e |-> e]

\* BaseOptimizer._place_product_on_shelf: [ok, e].
_place_product_on_shelf(e, k, p, facings) ==
    LET S == store.shelves[k]
        x_position == IF e.pos[k] # <<>> THEN MaxEnd(e.pos[k]) + gap_size ELSE gap_size
        Fits(f) == x_position + p.width * f + gap_size <= S.width
        min_facings == Max(1, p.min_facings)
    IN  IF p.height > S.height \/ p.depth > S.depth THEN [ok |-> FALSE, e |-> e]
        ELSE IF Fits(facings) THEN [ok |-> TRUE, e |-> AppendPosition(e, k, p, facings, x_position)]
        ELSE IF facings > 1 /\ facings > p.min_facings /\ Fits(min_facings)
             THEN [ok |-> TRUE, e |-> AppendPosition(e, k, p, min_facings, x_position)]
        ELSE [ok |-> FALSE, e |-> e]

\* ProductOptimizer._try_place_product (BundleOptimizer._try_place_product is the same).
_try_place_product(e, k, p, facings) ==
    LET S == store.shelves[k] IN
    IF can_fit_product(S, e.pos[k], p, facings) THEN _place_product_on_shelf(e, k, p, facings)
    ELSE IF facings > p.min_facings /\ can_fit_product(S, e.pos[k], p, p.min_facings)
         THEN _place_product_on_shelf(e, k, p, p.min_facings)
    ELSE [ok |-> FALSE, e |-> e]

\* `for shelf in order: if self._try_place_product(shelf, product, facings): ... break`
\* A failed attempt changes nothing, so the loop is the first shelf that takes it.
TryShelves(e, order, p, facings) ==
    LET taking == {i \in 1..Len(order) : _try_place_product(e, order[i], p, facings).ok}
    IN  IF taking = {} THEN [ok |-> FALSE, e |-> e]
        ELSE _try_place_product(e, order[CHOOSE i \in taking : \A j \in taking : i <= j], p, facings)

ShelfOrder == [k \in 1..NumShelves |-> k]
ProductIds == [i \in 1..Len(products) |-> i]

\* sorted(shelves, key=lambda s: s.utilization) over the shelves `order`, with
\* the utilizations as they are stored on the shelves.
ByUtilization(e, order) ==
    LET Less(a, b) == e.util[a] * store.shelves[b].width < e.util[b] * store.shelves[a].width
    IN  SortedBy(order, Less)

\* ------------------------------------------------------------- filtering
Take(s, n) == SubSeq(s, 1, Min(n, Len(s)))

RECURSIVE Distinct(_)
Distinct(s) ==
    IF s = <<>> THEN <<>>
    ELSE <<Head(s)>> \o Distinct(SelectSeq(Tail(s), LAMBDA x : x # Head(s)))

RECURSIVE Flatten(_)
Flatten(ss) == IF ss = <<>> THEN <<>> ELSE Head(ss) \o Flatten(Tail(ss))

OfCategory(s, c) == SelectSeq(s, LAMBDA id : P(id).category = c)
CategoriesOf(s) == Distinct([i \in 1..Len(s) |-> P(s[i]).category])

ByWeeklySales(a, b) == P(a).avg_weekly_sales > P(b).avg_weekly_sales
\* Reading p.avg_weekly_sales of a product that has no such attribute raises.
MissingWeeklySales(s) == \E i \in 1..Len(s) : P(s[i]).avg_weekly_sales = Absent

\* Store._apply_category_limits
_apply_category_limits(s) ==
    LET min_per_cat == store.rules.min_skus_per_category
        max_per_cat == IF store.rules.max_skus_per_category = Absent THEN 999
                       ELSE store.rules.max_skus_per_category
        cats == CategoriesOf(s)
        Kept(c) == LET cat_products == SortedBy(OfCategory(s, c), ByWeeklySales)
                   IN  Take(cat_products, Max(min_per_cat, Min(Len(cat_products), max_per_cat)))
    IN  Flatten([i \in 1..Len(cats) |-> Kept(cats[i])])

\* Store.filter_products_by_rules: [raised, out]; raised when an attribute
\* read fails (AttributeError).
filter_products_by_rules(s) ==
    LET r == store.rules
        ranked == \/ store.store_type = "express" /\ r.only_bestsellers
                  \/ store.store_type = "standard" /\ r.filter_by_sales_rank
        limit == IF store.store_type = "express"
                 THEN (IF r.max_skus_total = Absent THEN 30 ELSE r.max_skus_total)
                 ELSE (IF r.max_rank_included = Absent THEN 20 ELSE r.max_rank_included)
        f1 == IF ranked THEN Take(SortedBy(s, ByWeeklySales), limit) ELSE s
        f2 == IF r.min_weekly_sales # Absent
              THEN SelectSeq(f1, LAMBDA id : P(id).avg_weekly_sales >= r.min_weekly_sales)
              ELSE f1
        limited == r.min_skus_per_category # Absent /\ r.min_skus_per_category # 0
        f3 == IF limited THEN _apply_category_limits(f2) ELSE f2
    IN  IF \/ ranked /\ MissingWeeklySales(s)
           \/ r.min_weekly_sales # Absent /\ MissingWeeklySales(f1)
           \/ limited /\ MissingWeeklySales(f2)
        THEN [raised |-> TRUE, out |-> <<>>]
        ELSE [raised |-> FALSE, out |-> f3]

\* ------------------------------------------------------------ priorities
\* BaseOptimizer._sort_products_by_priority with the default weights
\* (optimization_weights = {}: 0.3 sales, 0.3 attach, 0.2 for a product whose
\* status is NEW), in hundredths.
priority_score(p) ==
    p.sales_velocity * 30 + (IF p.attach_rate = NoneVal THEN 0 ELSE p.attach_rate) * 3
        + (IF p.status = "new" THEN 20 ELSE 0)

ByPriority(a, b) == priority_score(P(a)) > priority_score(P(b))
_sort_products_by_priority(s) == SortedBy(s, ByPriority)

BySalesVelocity(a, b) == P(a).sales_velocity > P(b).sales_velocity

\* getattr(product, 'profit', getattr(product, 'price', 0)), None read as 0
ProfitOrPrice(p) ==
    LET v == IF p.profit # Absent THEN p.profit ELSE IF p.price # Absent THEN p.price ELSE 0
    IN  IF v = NoneVal THEN 0 ELSE v

\* _optimize_by_value: value_density = price * sales_velocity / width, compared
\* by cross-multiplication.
ByValueDensity(a, b) ==
    ProfitOrPrice(P(a)) * P(a).sales_velocity * P(b).width
        > ProfitOrPrice(P(b)) * P(b).sales_velocity * P(a).width

\* _optimize_by_value, lines 229-233
ValueFacings(p) ==
    IF ProfitOrPrice(p) > 50 THEN Max(p.min_facings, 2) ELSE calculate_facings(p)

ByEyeLevel(a, b) == store.shelves[a].eye_level_score > store.shelves[b].eye_level_score

\* ------------------------------------------------------------- bump-out
\* ProductOptimizer._force_place_high_priority_product, lines 59-71: the
\* candidates of one shelf in turn.  [ok, e, placed]
RECURSIVE BumpCandidates(_, _, _, _, _)
BumpCandidates(e, placed, k, cands, p) ==
    IF cands = <<>> THEN [ok |-> FALSE, e |-> e, placed |-> placed]
    ELSE LET position == Head(cands)
             existing == P(position.product_id)
             e1 == [e EXCEPT !.pos[k] = RemoveFirst(@, position)]
             placed1 == RemoveFirst(placed, position.product_id)
             t == _try_place_product(e1, k, p, 1)
         IN  IF t.ok THEN [ok |-> TRUE, e |-> t.e, placed |-> placed1]
             ELSE BumpCandidates(_try_place_product(e1, k, existing, position.facings).e,
                                 Append(placed1, position.product_id), k, Tail(cands), p)

\* The candidates when a product that sells as much as p may be bumped out too.
NotHigherVelocityPositions(e, placed, k, p) ==
    SortedBy(SelectSeq(e.pos[k], LAMBDA position :
                    /\ position.product_id \in Range(placed)
                    /\ P(position.product_id).sales_velocity <= p.sales_velocity),
             LAMBDA a, b : P(a.product_id).sales_velocity < P(b.product_id).sales_velocity)

\* lines 48-57: the positions of shelf k whose product is in products_placed
\* and sells strictly less than p, lowest sales velocity first.
LowerVelocityPositions(e, placed, k, p) ==
    SortedBy(SelectSeq(e.pos[k], LAMBDA position :
                    /\ position.product_id \in Range(placed)
                    /\ P(position.product_id).sales_velocity < p.sales_velocity),
             LAMBDA a, b : P(a.product_id).sales_velocity < P(b.product_id).sales_velocity)

RECURSIVE BumpShelves(_, _, _, _)
BumpShelves(e, placed, k, p) ==
    IF k > NumShelves THEN [ok |-> FALSE, e |-> e, placed |-> placed]
    ELSE LET r == BumpCandidates(e, placed, k, LowerVelocityPositions(e, placed, k, p), p)
         IN  IF r.ok THEN r ELSE BumpShelves(r.e, r.placed, k + 1, p)

\* ProductOptimizer._force_place_high_priority_product
_force_place_high_priority_product(e, placed, p) ==
    LET first == TryShelves(e, ShelfOrder, p, 1)
    IN  IF first.ok THEN [ok |-> TRUE, e |-> first.e, placed |-> placed]
        ELSE BumpShelves(e, placed, 1, p)

\* ---------------------------------------------------------------- actions
NoCategory == [c \in Categories |-> 0]
NoResult == [kind |-> "none", cause |-> "", success |-> FALSE,
             category_distribution |-> NoCategory, total_facings |-> 0]

\* What a caller has in hand after a call of create_planogram: the argument,
\* the Result or the error, and the shelves of the store the Result refers to.
NoOutcome == [products |-> <<>>, result |-> NoResult, positions |-> <<>>, products_placed |-> <<>>,
              products_rejected |-> <<>>, warnings |-> <<>>]

\* A call of _place_product_on_shelf, Shelf.optimize_positions or
\* _force_place_high_priority_product: the arguments, and the shelves and the
\* list products_placed as they were before the call.
NoCall == [op |-> "none", shelf |-> 0, product_id |-> 0, facings |-> 0, gap_size |-> 0,
           x_position |-> NoneVal, before |-> <<>>, utilization |-> <<>>, products_placed |-> <<>>,
           calls |-> 0]

\* A new optimizer for one of the runs, and the list it will be given.
Start(lists, runs) ==
    /\ products \in lists
    /\ \E r \in runs :
        /\ store = r.store
        /\ strategy = r.strategy
        /\ gap_size = r.gap_size
        /\ bundle_data = r.bundle_data
        /\ positions = [k \in 1..Len(r.store.shelves) |-> <<>>]
        /\ utilization = [k \in 1..Len(r.store.shelves) |-> 0]
    /\ pc = "start"
    /\ category_distribution = NoCategory
    /\ warnings = <<>>
    /\ self_products_placed = <<>>
    /\ queue = <<>>
    /\ products_placed = <<>>
    /\ products_rejected = <<>>
    /\ category_shelf_assignments = [c \in Categories |-> <<>>]
    /\ bundle_groups = <<>>
    /\ bundle_placements = <<>>
    /\ bundle_frequency = [i \in 1..Len(products) |-> NoneVal]
    /\ result = NoResult
    /\ run = 1
    /\ earlier = NoOutcome
    /\ call = NoCall
    /\ ret = FALSE
    /\ other = "start"

Init == Start(ProductLists, Runs)

SetEngine(e) ==
    /\ positions' = e.pos
    /\ utilization' = e.util
    /\ category_distribution' = e.cat

\* create_planogram, lines 350-352: whatever is raised inside the try block is
\* raised again as OptimizationError("Optimization failed: <cause>").
Raise(cause) ==
    /\ pc' = "raised"
    /\ result' = [NoResult EXCEPT !.kind = "raised", !.cause = cause]

\* shelves that keep their placements from one run to the next
KeepShelves(ps) == ps

\* BaseOptimizer._reset_shelves: shelf.positions = [] for every shelf
_reset_shelves(ps) == [k \in DOMAIN ps |-> <<>>]

\* BaseOptimizer._reset_shelves and create_planogram, lines 318-322
Reset ==
    /\ pc = "start"
    /\ positions' = _reset_shelves(positions)
    /\ utilization' = [k \in 1..NumShelves |-> update_utilization(<<>>)]
    /\ category_distribution' = NoCategory
    /\ warnings' = <<>>
    /\ self_products_placed' = <<>>
    /\ pc' = "filter"
    /\ UNCHANGED <<inputs, caller, queue, products_placed, products_rejected,
                   category_shelf_assignments, bundle_groups, bundle_placements,
                   bundle_frequency, result>>

\* a run that goes on whatever filtering left
NeverEmpty(filtered_products) == FALSE

\* create_planogram, line 329: `if not filtered_products`
NoProductsRemain(filtered_products) == filtered_products = <<>>

\* create_planogram, lines 325-330
Filter ==
    /\ pc = "filter"
    /\ LET f == filter_products_by_rules(ProductIds)
       IN  IF f.raised
           THEN Raise("'Product' object has no attribute 'avg_weekly_sales'") /\ UNCHANGED queue
           ELSE IF NoProductsRemain(f.out) THEN Raise("No products remain after filtering") /\ UNCHANGED queue
           ELSE queue' = f.out /\ pc' = "optimize" /\ UNCHANGED result
    /\ UNCHANGED <<inputs, caller, positions, utilization, category_distribution, warnings,
                   self_products_placed, products_placed, products_rejected,
                   category_shelf_assignments, bundle_groups, bundle_placements,
                   bundle_frequency>>

\* a success flag that is always set
AlwaysSuccess(placed) == TRUE

\* OptimizationResult(success=len(products_placed) > 0, ...)
Success(placed) == Len(placed) > 0

\* ProductOptimizer.optimize, line 22
SortByPriority ==
    /\ pc = "optimize"
    /\ strategy # "bundle"
    /\ queue' = _sort_products_by_priority(queue)
    /\ pc' = strategy
    /\ UNCHANGED <<inputs, caller, positions, utilization, category_distribution, warnings,
                   self_products_placed, products_placed, products_rejected,
                   category_shelf_assignments, bundle_groups, bundle_placements,
                   bundle_frequency, result>>

\* ---- sales_velocity
\* _optimize_by_sales, lines 77-86
OptimizeBySales ==
    /\ pc = "sales_velocity"
    /\ queue' = SortedBy(queue, BySalesVelocity)
    /\ products_placed' = <<>>
    /\ products_rejected' = <<>>
    /\ pc' = "place_sales"
    /\ UNCHANGED <<inputs, caller, positions, utilization, category_distribution, warnings,
                   self_products_placed, category_shelf_assignments, bundle_groups,
                   bundle_placements, bundle_frequency, result>>

\* _optimize_by_sales, lines 84-86: eye_level_shelves + other_shelves
AllShelvesBySales ==
    SelectSeq(ShelfOrder, LAMBDA k : store.shelves[k].eye_level_score >= 7)
        \o SelectSeq(ShelfOrder, LAMBDA k : store.shelves[k].eye_level_score < 7)

\* A loop that takes the products from the slow end of the sorted list and
\* rejects what no shelf takes, without the bump-out.
PlaceSlowestFirst ==
    /\ pc = "place_sales"
    /\ queue # <<>>
    /\ LET id == queue[Len(queue)]
           Tried(t) ==
               IF t.ok
               THEN /\ SetEngine(t.e)
                    /\ products_placed' = Append(products_placed, id)
                    /\ UNCHANGED <<products_rejected, warnings>>
               ELSE /\ products_rejected' = Append(products_rejected, id)
                    /\ warnings' = Append(warnings, Warning("could_not_place", id))
                    /\ UNCHANGED <<positions, utilization, category_distribution,
                                   products_placed>>
       IN  Tried(TryShelves(Engine, ByUtilization(Engine, AllShelvesBySales), P(id), 1))
    /\ queue' = SubSeq(queue, 1, Len(queue) - 1)
    /\ UNCHANGED <<inputs, caller, pc, self_products_placed, category_shelf_assignments,
                   bundle_groups, bundle_placements, bundle_frequency, result>>

\* _optimize_by_sales, lines 89-115: one turn of the loop
PlaceBySales ==
    /\ pc = "place_sales"
    /\ queue # <<>>
    /\ LET id == Head(queue)
           t == TryShelves(Engine, ByUtilization(Engine, AllShelvesBySales), P(id), 1)
           f == _force_place_high_priority_product(Engine, products_placed, P(id))
       IN  IF t.ok
           THEN /\ SetEngine(t.e)
                /\ products_placed' = Append(products_placed, id)
                /\ UNCHANGED <<products_rejected, warnings>>
           ELSE IF f.ok
           THEN /\ SetEngine(f.e)
                /\ products_placed' = Append(f.placed, id)
                /\ UNCHANGED <<products_rejected, warnings>>
           ELSE /\ SetEngine(f.e)
                /\ products_placed' = f.placed
                /\ products_rejected' = Append(products_rejected, id)
                /\ warnings' = Append(warnings, Warning("could_not_place", id))
    /\ queue' = Tail(queue)
    /\ UNCHANGED <<inputs, caller, pc, self_products_placed, category_shelf_assignments,
                   bundle_groups, bundle_placements, bundle_frequency, result>>

\* ---- value_density
\* _optimize_by_value, lines 197-218
OptimizeByValue ==
    /\ pc = "value_density"
    /\ queue' = SortedBy(queue, ByValueDensity)
    /\ products_placed' = <<>>
    /\ products_rejected' = <<>>
    /\ pc' = "place_value"
    /\ UNCHANGED <<inputs, caller, positions, utilization, category_distribution, warnings,
                   self_products_placed, category_shelf_assignments, bundle_groups,
                   bundle_placements, bundle_frequency, result>>

\* _optimize_by_value, lines 221-248: one turn of the loop
PlaceByValue ==
    /\ pc = "place_value"
    /\ queue # <<>>
    /\ LET id == Head(queue)
           t == TryShelves(Engine, SortedBy(ShelfOrder, ByEyeLevel), P(id), ValueFacings(P(id)))
       IN  IF t.ok
           THEN /\ SetEngine(t.e)
                /\ products_placed' = Append(products_placed, id)
                /\ UNCHANGED <<products_rejected, warnings>>
           ELSE /\ products_rejected' = Append(products_rejected, id)
                /\ warnings' = Append(warnings, Warning("could_not_place", id))
                /\ UNCHANGED <<positions, utilization, category_distribution, products_placed>>
    /\ queue' = Tail(queue)
    /\ UNCHANGED <<inputs, caller, pc, self_products_placed, category_shelf_assignments,
                   bundle_groups, bundle_placements, bundle_frequency, result>>

\* ---- profit_efficiency
\* _optimize_by_profit_efficiency, lines 267-273, first product: None * total_qty
\* is a TypeError; otherwise the assignment to product.profit_efficiency, a
\* property of Product without a setter (product.py 133-138), is an AttributeError.
OptimizeByProfitEfficiency ==
    /\ pc = "profit_efficiency"
    /\ LET p == P(Head(queue))
           profit_per_unit == IF p.profit # Absent THEN p.profit
                              ELSE IF p.price # Absent THEN p.price ELSE 0
       IN  Raise(IF profit_per_unit = NoneVal THEN "TypeError"
                 ELSE "property 'profit_efficiency' of 'Product' object has no setter")
    /\ products_placed' = <<>>
    /\ products_rejected' = <<>>
    /\ UNCHANGED <<inputs, caller, positions, utilization, category_distribution, warnings,
                   self_products_placed, queue, category_shelf_assignments, bundle_groups,
                   bundle_placements, bundle_frequency>>

\* ---- category_grouped
\* _optimize_by_category, lines 141-145: price and sales_velocity read with defaults
CategoryValue(s, c) ==
    LET ps == OfCategory(s, c)
        price(p) == IF p.price \in {Absent, NoneVal} THEN 0 ELSE p.price
        velocity(p) == IF p.sales_velocity = 0 THEN p.total_qty ELSE p.sales_velocity
    IN  SumSeq([i \in 1..Len(ps) |-> price(P(ps[i])) * velocity(P(ps[i]))])

\* _optimize_by_category, lines 138-149: the categories, most valuable first
CategoryPriorities(s) ==
    SortedBy(CategoriesOf(s), LAMBDA a, b : CategoryValue(s, a) > CategoryValue(s, b))

\* ProductOptimizer._assign_categories_to_shelves: the shelf ids of the i-th category
ShelfGroups ==
    LET ids(Test(_)) == LET ks == SelectSeq(ShelfOrder, Test)
                        IN  [i \in 1..Len(ks) |-> store.shelves[ks[i]].shelf_id]
    IN  << ids(LAMBDA k : store.shelves[k].eye_level_score >= 8),
           ids(LAMBDA k : store.shelves[k].eye_level_score >= 4 /\ store.shelves[k].eye_level_score < 8),
           ids(LAMBDA k : store.shelves[k].eye_level_score < 4) >>

_assign_categories_to_shelves(category_priorities) ==
    [c \in Categories |->
        IF c \in Range(category_priorities)
        THEN ShelfGroups[(((CHOOSE i \in 1..Len(category_priorities) : category_priorities[i] = c) - 1) % 3) + 1]
        ELSE category_shelf_assignments[c]]

\* _optimize_by_category, lines 131-158: the categories are ranked and
\* assigned; the products are then taken category by category, best seller first.
OptimizeByCategory ==
    /\ pc = "category_grouped"
    /\ LET category_priorities == CategoryPriorities(queue)
       IN  /\ category_shelf_assignments' = _assign_categories_to_shelves(category_priorities)
           /\ queue' = Flatten([i \in 1..Len(category_priorities) |->
                                  SortedBy(OfCategory(queue, category_priorities[i]), BySalesVelocity)])
    /\ products_placed' = <<>>
    /\ products_rejected' = <<>>
    /\ pc' = "place_category"
    /\ UNCHANGED <<inputs, caller, positions, utilization, category_distribution, warnings,
                   self_products_placed, bundle_groups, bundle_placements,
                   bundle_frequency, result>>

\* ProductOptimizer._calculate_optimal_facings_for_store
_calculate_optimal_facings_for_store(p) ==
    LET from_rules == IF store.rules.max_facings_per_product = Absent THEN 4
                      ELSE store.rules.max_facings_per_product
        max_facings_per_product == IF store.store_type = "express" THEN Min(from_rules, 2)
                                   ELSE from_rules
    IN  Max(Min(calculate_facings(p), max_facings_per_product), p.min_facings)

\* next(s for s in self.store.shelves if s.shelf_id == shelf_id)
ShelfById(shelf_id) == CHOOSE k \in 1..NumShelves : store.shelves[k].shelf_id = shelf_id

\* _optimize_by_category, lines 160-184: one turn of the inner loop
PlaceByCategory ==
    /\ pc = "place_category"
    /\ queue # <<>>
    /\ LET id == Head(queue)
           assigned_shelves == category_shelf_assignments[P(id).category]
           t == TryShelves(Engine, [i \in 1..Len(assigned_shelves) |-> ShelfById(assigned_shelves[i])],
                           P(id), _calculate_optimal_facings_for_store(P(id)))
           u == TryShelves(Engine, ShelfOrder, P(id), Max(1, P(id).min_facings))
       IN  IF t.ok \/ u.ok
           THEN /\ SetEngine(IF t.ok THEN t.e ELSE u.e)
                /\ products_placed' = Append(products_placed, id)
                /\ UNCHANGED <<products_rejected, warnings>>
           ELSE /\ products_rejected' = Append(products_rejected, id)
                /\ warnings' = Append(warnings, Warning("could_not_place", id))
                /\ UNCHANGED <<positions, utilization, category_distribution, products_placed>>
    /\ queue' = Tail(queue)
    /\ UNCHANGED <<inputs, caller, pc, self_products_placed, category_shelf_assignments,
                   bundle_groups, bundle_placements, bundle_frequency, result>>

\* ---- balanced
\* _optimize_balanced, lines 328-352: composite_score in thousandths
composite_score(p) ==
    20 * Min(p.sales_velocity, 20)
    + (IF p.price \notin {Absent, NoneVal} /\ p.price > 0 THEN 3 * Min(p.price, 100) ELSE 150)
    + 30 * (IF p.attach_rate = NoneVal THEN 0 ELSE p.attach_rate)

ByCompositeScore(a, b) == composite_score(P(a)) > composite_score(P(b))

\* A BundleOptimizer without bundle data hands the run to a new
\* ProductOptimizer(strategy="balanced") (_fallback_optimization): that object
\* has no products_placed attribute and no category assignments.
Fallback == strategy = "bundle"

\* _optimize_balanced, lines 324-359
OptimizeBalanced ==
    /\ pc = "balanced"
    /\ queue' = SortedBy(queue, ByCompositeScore)
    /\ products_placed' = <<>>
    /\ products_rejected' = <<>>
    /\ pc' = IF store.placement_rules.category_grouping THEN "category_grouped" ELSE "place_balanced"
    /\ UNCHANGED <<inputs, caller, positions, utilization, category_distribution, warnings,
                   self_products_placed, category_shelf_assignments, bundle_groups,
                   bundle_placements, bundle_frequency, result>>

\* ProductOptimizer._find_optimal_shelf_for_product: the score of shelf k in
\* thousandths, without the utilization penalty (utilization / 100 * 0.3).
OptimalShelfScore(k, p) ==
    LET S == store.shelves[k] IN
    get_placement_score(S, p)
    + (IF ~Fallback /\ S.shelf_id \in Range(category_shelf_assignments[p.category]) THEN 300 ELSE 0)
    + (IF 10 * p.height >= 6 * S.height /\ 10 * p.height <= 8 * S.height THEN 200 ELSE 0)

_find_optimal_shelf_for_product(e, p) ==
    LET W(k) == store.shelves[k].width
        Num(k) == OptimalShelfScore(k, p) * W(k) - 300 * e.util[k]
        Better(a, b) == Num(a) * W(b) > Num(b) * W(a)
    IN  SortedBy(ShelfOrder, Better)[1]

\* _optimize_balanced, lines 362-393: one turn of the loop
PlaceBalanced ==
    /\ pc = "place_balanced"
    /\ queue # <<>>
    /\ LET id == Head(queue)
           optimal_facings == calculate_facings(P(id))
           best_shelf == _find_optimal_shelf_for_product(Engine, P(id))
           t == _try_place_product(Engine, best_shelf, P(id), optimal_facings)
           u == TryShelves(Engine, ByUtilization(Engine, ShelfOrder), P(id), optimal_facings)
       IN  IF \E k \in 1..NumShelves : PlacementScoreRaises(store.shelves[k], P(id))
           THEN /\ Raise(IF P(id).price = Absent THEN "'Product' object has no attribute 'price'"
                         ELSE "TypeError")
                /\ UNCHANGED <<positions, utilization, category_distribution, products_placed,
                               products_rejected, warnings, queue>>
           ELSE /\ queue' = Tail(queue)
                /\ UNCHANGED <<pc, result>>
                /\ IF t.ok \/ u.ok
                   THEN /\ SetEngine(IF t.ok THEN t.e ELSE u.e)
                        /\ products_placed' = Append(products_placed, id)
                        /\ UNCHANGED <<products_rejected, warnings>>
                   ELSE /\ products_rejected' = Append(products_rejected, id)
                        /\ warnings' = Append(warnings, Warning("could_not_place", id))
                        /\ UNCHANGED <<positions, utilization, category_distribution,
                                       products_placed>>
    /\ UNCHANGED <<inputs, caller, self_products_placed, category_shelf_assignments,
                   bundle_groups, bundle_placements, bundle_frequency>>

\* ---- post-optimization
\* ProductOptimizer._balance_shelf_loads, lines 503-513: the pairs (over, under)
\* in turn; placed is self.products_placed.
RECURSIVE BalancePairs(_, _, _)
BalancePairs(e, pairs, placed) ==
    IF pairs = <<>> THEN e
    ELSE LET over == pairs[1][1]
             under == pairs[1][2]
             movable == SelectSeq(e.pos[over], LAMBDA pos :
                            /\ pos.product_id \in Range(placed)
                            /\ can_fit_product(store.shelves[under], e.pos[under],
                                               P(pos.product_id), pos.facings))
         IN  IF movable = <<>> THEN BalancePairs(e, Tail(pairs), placed)
             ELSE BalancePairs(
                    _place_product_on_shelf([e EXCEPT !.pos[over] = RemoveFirst(@, movable[1])],
                                            under, P(movable[1].product_id), movable[1].facings).e,
                    Tail(pairs), placed)

OverUtilized(e) == SelectSeq(ShelfOrder, LAMBDA k : e.util[k] * 100 > 85 * store.shelves[k].width)
UnderUtilized(e) ==
    SelectSeq(ShelfOrder, LAMBDA k : e.util[k] * 100 < 40 * store.shelves[k].width /\ e.pos[k] # <<>>)

_balance_shelf_loads(e, placed) ==
    LET over == OverUtilized(e)
        under == UnderUtilized(e)
    IN  BalancePairs(e, Flatten([i \in 1..Len(over) |-> [j \in 1..Len(under) |-> <<over[i], under[j]>>]]),
                     placed)

\* ProductOptimizer._group_similar_products_on_shelves: the positions whose
\* product is found in self.products_placed, by (category, series), from gap_size on.
ByCategoryAndSeries(a, b) ==
    LET pa == P(a.product_id)
        pb == P(b.product_id)
    IN  \/ CategoryRank(pa.category) < CategoryRank(pb.category)
        \/ pa.category = pb.category /\ SeriesRank(pa.series) < SeriesRank(pb.series)

_group_similar_products_on_shelves(e, placed) ==
    LET New(ps) == IF Len(ps) < 2 THEN ps
                   ELSE Reposition(SortedBy(SelectSeq(ps, LAMBDA pos : pos.product_id \in Range(placed)),
                                            ByCategoryAndSeries),
                                   gap_size, gap_size)
    IN  [e EXCEPT !.pos = [k \in 1..NumShelves |-> New(e.pos[k])],
                  !.util = [k \in 1..NumShelves |->
                              IF Len(e.pos[k]) < 2 THEN e.util[k] ELSE update_utilization(New(e.pos[k]))]]

\* Shelf.optimize_positions on every shelf (post-optimization, lines 487-488)
OptimizeAllPositions(e) ==
    [e EXCEPT !.pos = [k \in 1..NumShelves |-> optimize_positions(e.pos[k], gap_size)],
              !.util = [k \in 1..NumShelves |->
                          IF e.pos[k] = <<>> THEN e.util[k]
                          ELSE update_utilization(optimize_positions(e.pos[k], gap_size))]]

\* ProductOptimizer._post_optimization_improvements; placed is self.products_placed
_post_optimization_improvements(e, placed) ==
    _group_similar_products_on_shelves(OptimizeAllPositions(_balance_shelf_loads(e, placed)), placed)

\* Reading self.products_placed on the fall-back optimizer raises AttributeError:
\* in _balance_shelf_loads when a position of an over-utilized shelf is looked
\* at, in _group_similar_products_on_shelves when a shelf holds two positions.
BalanceRaises(e) ==
    /\ OverUtilized(e) # <<>> /\ UnderUtilized(e) # <<>>
    /\ \E i \in 1..Len(OverUtilized(e)) : e.pos[OverUtilized(e)[i]] # <<>>

PostOptimizationRaises(e) ==
    /\ Fallback
    /\ \/ BalanceRaises(e)
       \/ \E k \in 1..NumShelves : Len(e.pos[k]) >= 2

\* _optimize_balanced, lines 395-397
PostOptimize ==
    /\ pc = "place_balanced"
    /\ queue = <<>>
    /\ IF products_placed = <<>>
       THEN pc' = "return_balanced" /\ UNCHANGED <<positions, utilization, result>>
       ELSE IF PostOptimizationRaises(Engine)
       THEN \* raised in _balance_shelf_loads before anything moved, or in
            \* _group_similar_products_on_shelves after the shelves were re-spaced
            LET e == IF BalanceRaises(Engine) THEN Engine
                     ELSE OptimizeAllPositions(_balance_shelf_loads(Engine, <<>>))
            IN  Raise("'ProductOptimizer' object has no attribute 'products_placed'")
                /\ positions' = e.pos /\ utilization' = e.util
       ELSE LET e == _post_optimization_improvements(Engine, self_products_placed)
            IN  positions' = e.pos /\ utilization' = e.util /\ pc' = "return_balanced"
                /\ UNCHANGED result
    /\ UNCHANGED <<inputs, caller, category_distribution, warnings, self_products_placed, queue,
                   products_placed, products_rejected, category_shelf_assignments,
                   bundle_groups, bundle_placements, bundle_frequency>>

\* ---- bundles
\* BundleOptimizer._extract_bundle_groups, lines 77-102: the group of one row
\* (the products of the run among accessory_1..3), empty when fewer than two.
GroupOf(row, s) ==
    LET group == SelectSeq(row.ids, LAMBDA id : id \in Range(s))
    IN  IF Len(group) >= 2 THEN group ELSE <<>>

\* lines 104-107: product.bundle_frequency after all rows, on every Product
\* object the caller holds (an object that is not in the list s keeps its value)
FrequenciesAfter(s) ==
    [id \in 1..Len(bundle_frequency) |->
        LET rows == {i \in 1..Len(bundle_data) : id \in Range(GroupOf(bundle_data[i], s))}
        IN  IF rows = {} THEN bundle_frequency[id]
            ELSE bundle_data[CHOOSE i \in rows : \A j \in rows : j <= i].frequency]

\* BundleOptimizer._extract_bundle_groups
_extract_bundle_groups(s) ==
    LET groups == SelectSeq([i \in 1..Len(bundle_data) |-> GroupOf(bundle_data[i], s)],
                            LAMBDA g : g # <<>>)
        Importance(g) == SumSeq([i \in 1..Len(g) |-> FrequenciesAfter(s)[g[i]]])
    IN  SortedBy(groups, LAMBDA a, b : Importance(a) > Importance(b))

\* _extract_bundle_groups, lines 77-107: the loop over the rows of bundle data
\* bd, for the product list s: the groups in row order, and the
\* bundle_frequency the loop leaves on the Product objects.
GroupsOfRows(bd, s) ==
    SelectSeq([i \in 1..Len(bd) |-> GroupOf(bd[i], s)], LAMBDA g : g # <<>>)

FrequenciesOfRows(bd, s, frequency) ==
    [id \in 1..Len(frequency) |->
        LET rows == {i \in 1..Len(bd) : id \in Range(GroupOf(bd[i], s))}
        IN  IF rows = {} THEN frequency[id]
            ELSE bd[CHOOSE i \in rows : \A j \in rows : j <= i].frequency]

\* _extract_bundle_groups, line 110: bundle_groups.sort by the bundle_frequency
\* the Product objects hold when the sort runs
SortGroupsByFrequency(groups, frequency) ==
    LET Importance(g) ==
            \* every member of a group was given a frequency by the loop
            SumSeq([i \in 1..Len(g) |-> IF frequency[g[i]] = NoneVal THEN 0 ELSE frequency[g[i]]])
    IN  SortedBy(groups, LAMBDA a, b : Importance(a) > Importance(b))

\* BundleOptimizer.optimize, lines 23-39
BundleOptimize ==
    /\ pc = "optimize"
    /\ strategy = "bundle"
    /\ IF bundle_data = <<>>
       THEN \* _fallback_optimization: ProductOptimizer.optimize of a new balanced optimizer
            /\ queue' = _sort_products_by_priority(queue)
            /\ pc' = "balanced"
            /\ UNCHANGED <<bundle_groups, bundle_frequency, products_placed, products_rejected>>
       ELSE /\ bundle_groups' = _extract_bundle_groups(queue)
            /\ bundle_frequency' = FrequenciesAfter(queue)
            /\ products_placed' = <<>>
            /\ products_rejected' = <<>>
            /\ pc' = "place_bundles"
            /\ UNCHANGED queue
    /\ UNCHANGED <<inputs, caller, positions, utilization, category_distribution, warnings,
                   self_products_placed, category_shelf_assignments, bundle_placements, result>>

BundleWidths(g) == SumSeq([i \in 1..Len(g) |-> P(g[i]).width * calculate_facings(P(g[i]))])

\* BundleOptimizer._calculate_bundle_placement_score times len(bundle), in thousandths
_calculate_bundle_placement_score(e, g, k) ==
    LET S == store.shelves[k]
        n == Len(g)
        bundle_value == SumSeq([i \in 1..n |-> P(g[i]).price * P(g[i]).sales_velocity])
        available == get_available_width(S, e.pos[k])
    IN  SumSeq([i \in 1..n |-> get_placement_score(S, P(g[i]))])
        + n * (IF bundle_value > 100
               THEN (IF S.is_eye_level THEN 500 ELSE IF S.is_premium THEN 300 ELSE 0) ELSE 0)
        + n * (IF 10 * BundleWidths(g) >= 3 * available /\ 10 * BundleWidths(g) <= 7 * available
               THEN 300 ELSE 0)
        + n * (IF Cardinality({P(g[i]).category : i \in 1..n}) <= 2 THEN 200 ELSE 0)

\* The score reads p.price of every member: a missing price raises.
MissingPrice(g) == SelectSeq(g, LAMBDA id : P(id).price \in {Absent, NoneVal})

\* BundleOptimizer._find_bundle_position
_find_bundle_position(S, ps, required_width) ==
    LET n == Len(ps)
        start == IF ps[1].x_start >= required_width + gap_size THEN <<0>> ELSE <<>>
        Between(i) == IF (ps[i + 1].x_start - gap_size) - (ps[i].x_end + gap_size) >= required_width
                      THEN <<ps[i].x_end + gap_size>> ELSE <<>>
        last_end == ps[n].x_end + gap_size
        end == IF S.width - last_end >= required_width THEN <<last_end>> ELSE <<>>
        gaps == start \o Flatten([i \in 1..(n - 1) |-> Between(i)]) \o end
        Off(g) == LET d == 2 * g + required_width - S.width IN IF d < 0 THEN -d ELSE d
    IN  IF ps = <<>>
        THEN (IF S.width - required_width > 0 THEN (S.width - required_width) \div 2 ELSE gap_size)
        ELSE IF gaps # <<>> THEN SortedBy(gaps, LAMBDA a, b : Off(a) < Off(b))[1]
        ELSE ps[n].x_end + gap_size

\* BundleOptimizer._place_product_at_position: [ok, e]
_place_product_at_position(e, k, p, facings, x_position) ==
    LET S == store.shelves[k]
        x_end == x_position + p.width * facings
        ps == SortedBy(Append(e.pos[k], ShelfPosition(p.product_id, x_position, x_end, facings)),
                       ByXStart)
    IN  IF x_end > S.width THEN [ok |-> FALSE, e |-> e]
        ELSE IF \E i \in 1..Len(e.pos[k]) :
                    ~(x_end <= e.pos[k][i].x_start \/ x_position >= e.pos[k][i].x_end)
        THEN [ok |-> FALSE, e |-> e]
        ELSE [ok |-> TRUE,
              e |-> [pos |-> [e.pos EXCEPT ![k] = ps],
                     util |-> [e.util EXCEPT ![k] = update_utilization(ps)],
                     cat |-> [e.cat EXCEPT ![p.category] = @ + facings]]]

\* _place_bundle, lines 141-145: the members one after the other from current_x
RECURSIVE PlaceMembers(_, _, _, _)
PlaceMembers(e, k, members, current_x) ==
    IF members = <<>> THEN [ok |-> TRUE, e |-> e, end_x |-> current_x]
    ELSE LET p == P(Head(members))
             facings == calculate_facings(p)
             Placed(r) ==
                IF ~r.ok THEN [ok |-> FALSE, e |-> r.e, end_x |-> current_x]
                ELSE PlaceMembers(r.e, k, Tail(members), current_x + p.width * facings + gap_size)
         IN  Placed(_place_product_at_position(e, k, p, facings, current_x))

\* all(self._try_place_product(shelf, p, p.calculate_facings("balanced")) for p in part)
RECURSIVE PlaceAll(_, _, _)
PlaceAll(e, k, part) ==
    IF part = <<>> THEN [ok |-> TRUE, e |-> e]
    ELSE LET Tried(r) == IF ~r.ok THEN r ELSE PlaceAll(r.e, k, Tail(part))
         IN  Tried(_try_place_product(e, k, P(Head(part)), calculate_facings(P(Head(part)))))

ByYPosition(a, b) == store.shelves[a].y_position < store.shelves[b].y_position

\* BundleOptimizer._place_split_bundle, from the i-th pair of neighbours on:
\* [ok, e, shelf1, shelf2]
RECURSIVE SplitFrom(_, _, _)
SplitFrom(e, g, i) ==
    LET shelves_by_height == SortedBy(ShelfOrder, ByYPosition) IN
    IF i > NumShelves - 1 THEN [ok |-> FALSE, e |-> e, shelf1 |-> 0, shelf2 |-> 0]
    ELSE LET k1 == shelves_by_height[i]
             k2 == shelves_by_height[i + 1]
             S1 == store.shelves[k1]
             S2 == store.shelves[k2]
             d == S2.y_position - (S1.y_position + S1.height)
             mid_point == Len(g) \div 2
             part1 == SubSeq(g, 1, mid_point)
             part2 == SubSeq(g, mid_point + 1, Len(g))
             \* part1_placed and part2_placed of the code, with the shelves as they are then
             Both(r1, r2) ==
                IF r1.ok /\ r2.ok
                THEN [ok |-> TRUE, e |-> r2.e, shelf1 |-> S1.shelf_id, shelf2 |-> S2.shelf_id]
                ELSE SplitFrom(r2.e, g, i + 1)
             Second(r1) == Both(r1, PlaceAll(r1.e, k2, part2))
         IN  IF /\ (IF d < 0 THEN -d ELSE d) < 10
                /\ get_available_width(S1, e.pos[k1]) >= BundleWidths(part1)
                /\ get_available_width(S2, e.pos[k2]) >= BundleWidths(part2)
             THEN Second(PlaceAll(e, k1, part1))
             ELSE SplitFrom(e, g, i + 1)

\* A placement that never splits a bundle.
NoSplit(e, g) == [ok |-> FALSE, e |-> e, shelf1 |-> 0, shelf2 |-> 0]

_place_split_bundle(e, g) == SplitFrom(e, g, 1)

\* bundle_placements[tuple(ids)] = {...}: a dict, the key keeps its place
Record(bp, entry) ==
    IF \E i \in 1..Len(bp) : bp[i].ids = entry.ids
    THEN [i \in 1..Len(bp) |-> IF bp[i].ids = entry.ids THEN entry ELSE bp[i]]
    ELSE Append(bp, entry)

\* BundleOptimizer._place_bundle: [ok, raised, split, e, bp, shelf1, shelf2]
_place_bundle(e, bp, g) ==
    LET total_width == BundleWidths(g) + gap_size * (Len(g) - 1)
        fitting == SelectSeq(ShelfOrder, LAMBDA k :
                        get_available_width(store.shelves[k], e.pos[k]) >= total_width)
        none == [ok |-> FALSE, raised |-> FALSE, split |-> FALSE, e |-> e, bp |-> bp,
                 shelf1 |-> 0, shelf2 |-> 0]
        Split(split) ==
            [none EXCEPT !.ok = split.ok, !.split = split.ok, !.e = split.e,
                         !.shelf1 = split.shelf1, !.shelf2 = split.shelf2]
        Whole(best_shelf, bundle_start_x, whole) ==
            IF ~whole.ok THEN [none EXCEPT !.e = whole.e]
            ELSE [none EXCEPT !.ok = TRUE, !.e = whole.e,
                              !.bp = Record(bp, [ids |-> g,
                                                 shelf_id |-> store.shelves[best_shelf].shelf_id,
                                                 start_x |-> bundle_start_x, end_x |-> whole.end_x])]
        From(best_shelf, bundle_start_x) ==
            Whole(best_shelf, bundle_start_x, PlaceMembers(e, best_shelf, g, bundle_start_x))
        On(best_shelf) ==
            From(best_shelf,
                 _find_bundle_position(store.shelves[best_shelf], e.pos[best_shelf], total_width))
    IN  IF fitting = <<>> THEN Split(_place_split_bundle(e, g))
        ELSE IF MissingPrice(g) # <<>> THEN [none EXCEPT !.raised = TRUE]
        \* `if score > best_score`: the first shelf with the highest score
        ELSE On(SortedBy(fitting, LAMBDA a, b :
                    _calculate_bundle_placement_score(e, g, a)
                        > _calculate_bundle_placement_score(e, g, b))[1])

\* BundleOptimizer.optimize, lines 43-50: one turn of the loop
PlaceBundle ==
    /\ pc = "place_bundles"
    /\ bundle_groups # <<>>
    /\ LET g == Head(bundle_groups)
           fresh == SelectSeq(Distinct(g), LAMBDA id : id \notin Range(products_placed))
           Placed(r) ==
              IF r.raised
              THEN /\ Raise(IF P(MissingPrice(g)[1]).price = Absent
                            THEN "'Product' object has no attribute 'price'" ELSE "TypeError")
                   /\ UNCHANGED <<positions, utilization, category_distribution, warnings,
                                  products_placed, bundle_placements, bundle_groups>>
              ELSE /\ SetEngine(r.e)
                   /\ bundle_placements' = r.bp
                   /\ bundle_groups' = Tail(bundle_groups)
                   /\ products_placed' = IF r.ok THEN products_placed \o fresh ELSE products_placed
                   /\ warnings' = warnings
                           \o (IF r.split THEN <<Warning("split_bundle", r.shelf1)>> ELSE <<>>)
                           \o (IF ~r.ok THEN <<Warning("bundle_not_placed", Len(g))>> ELSE <<>>)
                   /\ UNCHANGED <<pc, result>>
       IN  Placed(_place_bundle(Engine, bundle_placements, g))
    /\ UNCHANGED <<inputs, caller, self_products_placed, queue, products_rejected,
                   category_shelf_assignments, bundle_frequency>>

\* every product again, those placed with a bundle included
AllProducts(s, placed_ids) == s

\* BundleOptimizer.optimize, line 53: [p for p in products if p.product_id not in placed_ids]
remaining_products(s, placed_ids) == SelectSeq(s, LAMBDA id : id \notin placed_ids)

\* BundleOptimizer.optimize, line 53, and _place_remaining_products, line 298
BeginRemaining ==
    /\ pc = "place_bundles"
    /\ bundle_groups = <<>>
    /\ queue' = _sort_products_by_priority(remaining_products(queue, Range(products_placed)))
    /\ pc' = "place_remaining"
    /\ UNCHANGED <<inputs, caller, positions, utilization, category_distribution, warnings,
                   self_products_placed, products_placed, products_rejected,
                   category_shelf_assignments, bundle_groups, bundle_placements,
                   bundle_frequency, result>>

\* BundleOptimizer._find_related_product_shelf: [raised, found, shelf].  The
\* shelf of the first recorded bundle with a member of the product's category
\* or series; failing that, counting same-category products per shelf uses the
\* Shelf (an unhashable dataclass) as a dict key and raises TypeError.
_find_related_product_shelf(e, bp, p) ==
    LET related == SelectSeq(bp, LAMBDA b : \E i \in 1..Len(b.ids) :
                        P(b.ids[i]).category = p.category \/ P(b.ids[i]).series = p.series)
        counted == \E k \in 1..NumShelves : \E i \in 1..Len(e.pos[k]) :
                        P(e.pos[k][i].product_id).category = p.category
    IN  IF related # <<>> THEN [raised |-> FALSE, found |-> TRUE, shelf |-> ShelfById(related[1].shelf_id)]
        ELSE [raised |-> counted, found |-> FALSE, shelf |-> 0]

\* BundleOptimizer._place_remaining_products, lines 300-319: one turn of the loop
PlaceRemaining ==
    /\ pc = "place_remaining"
    /\ queue # <<>>
    /\ LET id == Head(queue)
           facings == calculate_facings(P(id))
           related == _find_related_product_shelf(Engine, bundle_placements, P(id))
           t == IF related.found THEN _try_place_product(Engine, related.shelf, P(id), facings)
                ELSE [ok |-> FALSE, e |-> Engine]
           u == TryShelves(Engine, ByUtilization(Engine, ShelfOrder), P(id), facings)
       IN  IF related.raised
           THEN /\ Raise("unhashable type: 'Shelf'")
                /\ UNCHANGED <<positions, utilization, category_distribution, products_placed,
                               products_rejected, queue>>
           ELSE /\ queue' = Tail(queue)
                /\ UNCHANGED <<pc, result>>
                /\ IF t.ok \/ u.ok
                   THEN /\ SetEngine(IF t.ok THEN t.e ELSE u.e)
                        /\ products_placed' = Append(products_placed, id)
                        /\ UNCHANGED products_rejected
                   ELSE /\ products_rejected' = Append(products_rejected, id)
                        /\ UNCHANGED <<positions, utilization, category_distribution,
                                       products_placed>>
    /\ UNCHANGED <<inputs, caller, warnings, self_products_placed, category_shelf_assignments,
                   bundle_groups, bundle_placements, bundle_frequency>>

\* _optimize_bundle_spacing, lines 375-395: the positions from current_x on
RECURSIVE Respace(_, _, _)
Respace(ps, current_x, bundle_boundaries) ==
    IF ps = <<>> THEN <<>>
    ELSE LET pos == Head(ps)
             x == IF pos.x_start \in bundle_boundaries THEN current_x + gap_size ELSE current_x
             x_end == x + (pos.x_end - pos.x_start)
         IN  <<ShelfPosition(pos.product_id, x, x_end, pos.facings)>>
             \o Respace(Tail(ps),
                        IF pos.x_end \in bundle_boundaries THEN x_end + gap_size + gap_size
                        ELSE x_end + gap_size,
                        bundle_boundaries)

\* BundleOptimizer._optimize_bundle_spacing: the new positions of shelf k
_optimize_bundle_spacing(ps, shelf_id, bp) ==
    LET members == UNION {Range(bp[i].ids) : i \in {j \in 1..Len(bp) : bp[j].shelf_id = shelf_id}}
        marked == {i \in 1..Len(ps) : ps[i].product_id \in members}
        bundle_boundaries == {ps[i].x_start : i \in marked} \cup {ps[i].x_end : i \in marked}
    IN  IF Len(ps) < 2 \/ bundle_boundaries = {} THEN ps
        ELSE Respace(SortedBy(ps, ByXStart), gap_size, bundle_boundaries)

\* BundleOptimizer.optimize, line 60
BundleSpacing ==
    /\ pc = "place_remaining"
    /\ queue = <<>>
    /\ LET New(k) == _optimize_bundle_spacing(positions[k], store.shelves[k].shelf_id, bundle_placements)
       IN  /\ positions' = [k \in 1..NumShelves |-> New(k)]
           /\ utilization' = [k \in 1..NumShelves |->
                                IF New(k) = positions[k] /\ Len(positions[k]) < 2 THEN utilization[k]
                                ELSE update_utilization(New(k))]
    /\ pc' = "return_bundle"
    /\ UNCHANGED <<inputs, caller, category_distribution, warnings, self_products_placed, queue,
                   products_placed, products_rejected, category_shelf_assignments,
                   bundle_groups, bundle_placements, bundle_frequency, result>>

\* ---- the end of a strategy
\* `self.products_placed = products_placed` (sales 118, value 251, balanced 400;
\* not in _optimize_by_category, not in BundleOptimizer.optimize) and the
\* OptimizationResult the strategy returns.
Return ==
    /\ \/ pc \in {"place_sales", "place_value", "place_category"} /\ queue = <<>>
       \/ pc \in {"return_balanced", "return_bundle"}
    /\ self_products_placed' = IF pc \in {"place_sales", "place_value"} \/ (pc = "return_balanced" /\ ~Fallback)
                               THEN products_placed ELSE self_products_placed
    /\ result' = [NoResult EXCEPT !.kind = "built", !.success = Success(products_placed)]
    /\ pc' = "metrics"
    /\ UNCHANGED <<inputs, caller, positions, utilization, category_distribution, warnings, queue,
                   products_placed, products_rejected, category_shelf_assignments,
                   bundle_groups, bundle_placements, bundle_frequency>>

\* ---- metrics and validation
AllPositions == Flatten(positions)

\* BaseOptimizer._calculate_metrics: the shelves are refreshed (220-221); the
\* category totals are counted over the positions whose product is found in
\* self.products_placed (237-250) and then overwritten, key by key, by the
\* counter kept during placement (278-281).
_calculate_metrics ==
    LET found == SelectSeq(AllPositions, LAMBDA pos : pos.product_id \in Range(self_products_placed))
        counted == [c \in Categories |->
                      SumSeq([i \in 1..Len(found) |->
                                IF P(found[i].product_id).category = c THEN found[i].facings ELSE 0])]
    IN  [category_distribution |->
            [c \in Categories |-> IF category_distribution[c] # 0
                                  THEN category_distribution[c] ELSE counted[c]],
         total_facings |-> SumSeq([i \in 1..Len(AllPositions) |-> AllPositions[i].facings])]

\* create_planogram, line 336
CalculateMetrics ==
    /\ pc = "metrics"
    /\ utilization' = [k \in 1..NumShelves |-> update_utilization(positions[k])]
    /\ result' = [result EXCEPT !.category_distribution = _calculate_metrics.category_distribution,
                                !.total_facings = _calculate_metrics.total_facings]
    /\ pc' = "validate"
    /\ UNCHANGED <<inputs, caller, positions, category_distribution, warnings, self_products_placed,
                   queue, products_placed, products_rejected, category_shelf_assignments,
                   bundle_groups, bundle_placements, bundle_frequency>>

\* BaseOptimizer._validate_placement
_validate_placement ==
    LET under == SelectSeq(ShelfOrder, LAMBDA k :
                    utilization[k] * 100 < 20 * store.shelves[k].width /\ Len(positions[k]) > 0)
        CategoriesOn(k) == {P(positions[k][i].product_id).category :
                               i \in {j \in 1..Len(positions[k]) :
                                        positions[k][j].product_id \in Range(self_products_placed)}}
        mixed == IF store.placement_rules.category_grouping
                 THEN SelectSeq(ShelfOrder, LAMBDA k : Cardinality(CategoriesOn(k)) > 3)
                 ELSE <<>>
    IN  [i \in 1..Len(under) |-> Warning("underutilized", store.shelves[under[i]].shelf_id)]
        \o [i \in 1..Len(mixed) |-> Warning("too_many_categories", store.shelves[mixed[i]].shelf_id)]

\* create_planogram, lines 339-348: the findings join the warnings and the
\* result is returned.
Validate ==
    /\ pc = "validate"
    /\ warnings' = warnings \o _validate_placement
    /\ result' = [result EXCEPT !.kind = "result"]
    /\ pc' = "done"
    /\ UNCHANGED <<inputs, caller, positions, utilization, category_distribution,
                   self_products_placed, queue, products_placed, products_rejected,
                   category_shelf_assignments, bundle_groups, bundle_placements,
                   bundle_frequency>>

Next ==
    \/ Reset
    \/ Filter
    \/ SortByPriority
    \/ OptimizeBySales
    \/ PlaceBySales
    \/ OptimizeByValue
    \/ PlaceByValue
    \/ OptimizeByProfitEfficiency
    \/ OptimizeByCategory
    \/ PlaceByCategory
    \/ OptimizeBalanced
    \/ PlaceBalanced
    \/ PostOptimize
    \/ BundleOptimize
    \/ PlaceBundle
    \/ BeginRemaining
    \/ PlaceRemaining
    \/ BundleSpacing
    \/ Return
    \/ CalculateMetrics
    \/ Validate

Spec == Init /\ [][Next]_vars

\* --------------------------------------------- two calls on one optimizer
\* The caller keeps what create_planogram returned or raised.
Outcome == [products |-> products, result |-> result, positions |-> positions,
            products_placed |-> products_placed, products_rejected |-> products_rejected,
            warnings |-> warnings]

\* The lists a caller passes to the second call: the same list, or the same
\* Product objects without the last one.
SecondLists(s) == {s} \cup (IF Len(s) > 1 THEN {Take(s, Len(s) - 1)} ELSE {})

\* A second create_planogram call on the same optimizer object.  The locals of
\* the first call are gone; the fields of the optimizer, of the store and of
\* the Product objects are as the first call left them.
Rerun ==
    /\ pc \in {"done", "raised"}
    /\ run = 1
    /\ run' = 2
    /\ earlier' = Outcome
    /\ products' \in SecondLists(products)
    /\ pc' = "start"
    /\ queue' = <<>>
    /\ products_placed' = <<>>
    /\ products_rejected' = <<>>
    /\ result' = NoResult
    /\ UNCHANGED <<store, strategy, gap_size, bundle_data, positions, utilization,
                   category_distribution, warnings, self_products_placed,
                   category_shelf_assignments, bundle_groups, bundle_placements,
                   bundle_frequency, call, ret, other>>

InitTwice == Init /\ Len(products) <= MaxTwice

NextTwice == Next \/ Rerun

SpecTwice == InitTwice /\ [][NextTwice]_vars

\* ------------------------------------- the sales_velocity strategy alone
InitSales == Start(SalesLists, SalesRuns)

NextSales ==
    \/ Reset
    \/ Filter
    \/ SortByPriority
    \/ OptimizeBySales
    \/ PlaceBySales
    \/ Return
    \/ CalculateMetrics
    \/ Validate

SpecSales == InitSales /\ [][NextSales]_vars

\* ------------------------------------------ the shelf routines one by one
ShelfCall(op, k, id, facings, gap) ==
    [op |-> op, shelf |-> k, product_id |-> id, facings |-> facings, gap_size |-> gap,
     x_position |-> NoneVal, before |-> positions, utilization |-> utilization, products_placed |-> products_placed,
     calls |-> call.calls + 1]

\* self._place_product_on_shelf(shelf, product, facings) for a product that is
\* not placed yet; the caller appends the product to products_placed when the
\* call returns True, as the strategies do.
PlaceOnShelf ==
    /\ pc = "start"
    /\ call.calls < MaxCalls
    /\ \E k \in 1..NumShelves, id \in 1..Len(products), facings \in Facings :
        /\ id \notin Range(products_placed)
        /\ LET Placed(r) ==
                /\ SetEngine(r.e)
                /\ products_placed' = IF r.ok THEN Append(products_placed, id) ELSE products_placed
                /\ ret' = r.ok
           IN  Placed(_place_product_on_shelf(Engine, k, P(id), facings))
        /\ call' = ShelfCall("_place_product_on_shelf", k, id, facings, gap_size)
    /\ UNCHANGED <<inputs, run, earlier, other, pc, warnings, self_products_placed, queue,
                   products_rejected, category_shelf_assignments, bundle_groups,
                   bundle_placements, bundle_frequency, result>>

\* shelf.optimize_positions(gap_size) on a shelf of the store
Reflow ==
    /\ pc = "start"
    /\ call.calls < MaxCalls
    /\ \E k \in 1..NumShelves, gap \in Gaps :
        /\ positions' = [positions EXCEPT ![k] = optimize_positions(@, gap)]
        /\ utilization' = [utilization EXCEPT
                              ![k] = IF positions[k] = <<>> THEN @
                                     ELSE update_utilization(optimize_positions(positions[k], gap))]
        /\ call' = ShelfCall("optimize_positions", k, 0, 0, gap)
        /\ ret' = TRUE
    /\ UNCHANGED <<inputs, run, earlier, other, pc, category_distribution, warnings,
                   self_products_placed, queue, products_placed, products_rejected,
                   category_shelf_assignments, bundle_groups, bundle_placements,
                   bundle_frequency, result>>

\* self._force_place_high_priority_product(product, products_placed) for a
\* product that is not placed yet; the caller appends the product when the call
\* returns True (_optimize_by_sales, lines 104-106).
ForcePlace ==
    /\ pc = "start"
    /\ call.calls < MaxCalls
    /\ \E id \in 1..Len(products) :
        /\ id \notin Range(products_placed)
        /\ LET Placed(f) ==
                /\ SetEngine(f.e)
                /\ products_placed' = IF f.ok THEN Append(f.placed, id) ELSE f.placed
                /\ ret' = f.ok
           IN  Placed(_force_place_high_priority_product(Engine, products_placed, P(id)))
        /\ call' = ShelfCall("_force_place_high_priority_product", 0, id, 1, gap_size)
    /\ UNCHANGED <<inputs, run, earlier, other, pc, warnings, self_products_placed, queue,
                   products_rejected, category_shelf_assignments, bundle_groups,
                   bundle_placements, bundle_frequency, result>>

\* shelf.add_product(product, facings, x_position) on a shelf of the store
AddProduct ==
    /\ pc = "start"
    /\ call.calls < MaxCalls
    /\ \E k \in 1..NumShelves, id \in 1..Len(products), facings \in Facings, x \in XPositions :
        /\ LET Added(a) ==
                /\ positions' = [positions EXCEPT ![k] = a.ps]
                /\ utilization' = [utilization EXCEPT
                                      ![k] = IF a.ok THEN update_utilization(a.ps) ELSE @]
                /\ ret' = a.ok
           IN  Added(add_product(store.shelves[k], positions[k], P(id), facings, x))
        /\ call' = [ShelfCall("add_product", k, id, facings, 0) EXCEPT !.x_position = x]
    /\ UNCHANGED <<inputs, run, earlier, other, pc, category_distribution, warnings,
                   self_products_placed, queue, products_placed, products_rejected,
                   category_shelf_assignments, bundle_groups, bundle_placements,
                   bundle_frequency, result>>

\* Shelf.remove_product: [ok, ps], every position of the product taken off
remove_product(ps, product_id) ==
    LET kept == SelectSeq(ps, LAMBDA pos : pos.product_id # product_id)
    IN  [ok |-> Len(kept) < Len(ps), ps |-> kept]

\* shelf.remove_product(product_id) on a shelf of the store
RemoveProduct ==
    /\ pc = "start"
    /\ call.calls < MaxCalls
    /\ \E k \in 1..NumShelves, id \in 1..Len(products) :
        /\ LET Removed(r) ==
                /\ positions' = [positions EXCEPT ![k] = r.ps]
                /\ utilization' = [utilization EXCEPT
                                      ![k] = IF r.ok THEN update_utilization(r.ps) ELSE @]
                /\ ret' = r.ok
           IN  Removed(remove_product(positions[k], id))
        /\ call' = ShelfCall("remove_product", k, id, 0, 0)
    /\ UNCHANGED <<inputs, run, earlier, other, pc, category_distribution, warnings,
                   self_products_placed, queue, products_placed, products_rejected,
                   category_shelf_assignments, bundle_groups, bundle_placements,
                   bundle_frequency, result>>

\* shelf.update_utilization() on a shelf of the store
UpdateUtilization ==
    /\ pc = "start"
    /\ call.calls < MaxCalls
    /\ \E k \in 1..NumShelves :
        /\ utilization' = [utilization EXCEPT ![k] = update_utilization(positions[k])]
        /\ call' = ShelfCall("update_utilization", k, 0, 0, 0)
    /\ ret' = TRUE
    /\ UNCHANGED <<inputs, run, earlier, other, pc, positions, category_distribution, warnings,
                   self_products_placed, queue, products_placed, products_rejected,
                   category_shelf_assignments, bundle_groups, bundle_placements,
                   bundle_frequency, result>>

\* self._balance_shelf_loads() on an optimizer whose self.products_placed names
\* the products placed so far; not called twice in a row.
Balance ==
    /\ pc = "start"
    /\ call.op # "_balance_shelf_loads"
    /\ LET Balanced(e) == SetEngine(e)
       IN  Balanced(_balance_shelf_loads(Engine, products_placed))
    /\ call' = [ShelfCall("_balance_shelf_loads", 0, 0, 0, gap_size) EXCEPT !.calls = call.calls]
    /\ ret' = TRUE
    /\ UNCHANGED <<inputs, run, earlier, other, pc, warnings, self_products_placed, queue,
                   products_placed, products_rejected, category_shelf_assignments,
                   bundle_groups, bundle_placements, bundle_frequency, result>>

InitShelf == Start(ShelfLists, ShelfRuns)

InitReflow == Start(ReflowLists, ReflowRuns)

NextReflow == AddProduct \/ Reflow \/ RemoveProduct

SpecReflow == InitReflow /\ [][NextReflow]_vars


NextShelf == PlaceOnShelf \/ Reflow \/ ForcePlace \/ Balance \/ RemoveProduct \/ UpdateUtilization

SpecShelf == InitShelf /\ [][NextShelf]_vars

\* ------------------------------------------------------------ properties
\* create_planogram has returned a Result
Returned == pc = "done"

\* the products that survive Store.filter_products_by_rules in this run
Survivors == filter_products_by_rules(ProductIds).out

Occurrences(s, id) == Cardinality({i \in 1..Len(s) : s[i] = id})

\* C1: at the end of a run, no two placements on the same shelf overlap: for
\* every shelf and every two distinct placements i, j on it,
\* x_end_i <= x_start_j or x_end_j <= x_start_i.
C1_NoOverlap ==
    Returned =>
        \A k \in 1..NumShelves : \A i, j \in 1..Len(positions[k]) :
            i # j => \/ positions[k][i].x_end <= positions[k][j].x_start
                     \/ positions[k][j].x_end <= positions[k][i].x_start

\* a returned run with two placements side by side on one shelf
C1_Witness ==
    /\ Returned
    /\ \E k \in 1..NumShelves : Len(positions[k]) >= 2

\* C2: at the end of a run, every placement lies inside its shelf:
\* x_start >= 0 and x_end <= shelf.width.
C2_InsideShelf ==
    Returned =>
        \A k \in 1..NumShelves : \A i \in 1..Len(positions[k]) :
            /\ positions[k][i].x_start >= 0
            /\ positions[k][i].x_end <= store.shelves[k].width

\* C3: at the end of a run, the facing count of every placement is within its
\* product's limits: min_facings <= facings <= max_facings.
C3_FacingBounds ==
    Returned =>
        \A k \in 1..NumShelves : \A i \in 1..Len(positions[k]) :
            /\ P(positions[k][i].product_id).min_facings <= positions[k][i].facings
            /\ positions[k][i].facings <= P(positions[k][i].product_id).max_facings

\* C4: in a returned Result, every product of products_placed has a placement
\* carrying its product_id on some shelf of the store.
C4_PlacedAreOnShelves ==
    Returned =>
        \A n \in 1..Len(products_placed) :
            \E k \in 1..NumShelves : \E i \in 1..Len(positions[k]) :
                positions[k][i].product_id = products_placed[n]

\* C5: in a returned Result, every product that survived filtering occurs
\* exactly once in products_placed and products_rejected taken together, and
\* nothing else occurs in them.
C5_PlacedOrRejectedOnce ==
    Returned =>
        /\ \A id \in Range(Survivors) :
                Occurrences(products_placed, id) + Occurrences(products_rejected, id) = 1
        /\ Range(products_placed) \cup Range(products_rejected) \subseteq Range(Survivors)

\* a returned bundle run in which a bundle could not be placed and a product was rejected
C5_Witness ==
    /\ Returned
    /\ strategy = "bundle"
    /\ \E i \in 1..Len(warnings) : warnings[i].kind = "bundle_not_placed"
    /\ products_rejected # <<>>
    /\ products_placed # <<>>

\* C6: in a returned Result, every rejected product has a warning about it in
\* the result's warnings.
C6_RejectedAreWarned ==
    Returned =>
        \A n \in 1..Len(products_rejected) :
            \E i \in 1..Len(warnings) :
                warnings[i] = Warning("could_not_place", products_rejected[n])

\* C7: when no product survives filtering, the run ends by raising the error
\* whose cause is "No products remain after filtering": it never goes on to a
\* strategy, nothing is placed and no Result is returned.
C7_NothingSurvives ==
    (pc \notin {"start", "filter"} /\ ~filter_products_by_rules(ProductIds).raised /\ Survivors = <<>>) =>
        /\ pc = "raised"
        /\ result.kind = "raised"
        /\ result.cause = "No products remain after filtering"
        /\ \A k \in 1..NumShelves : positions[k] = <<>>
        /\ products_placed = <<>>

\* a non-empty product list of which filtering leaves nothing, after the raise
C7_Witness ==
    /\ pc = "raised"
    /\ products # <<>>
    /\ ~filter_products_by_rules(ProductIds).raised
    /\ Survivors = <<>>

\* every product of the run has price, profit, attach_rate and avg_weekly_sales
AllFieldsPresent ==
    \A i \in 1..Len(products) :
        /\ products[i].price \notin {Absent, NoneVal}
        /\ products[i].profit \notin {Absent, NoneVal}
        /\ products[i].attach_rate \notin {Absent, NoneVal}
        /\ products[i].avg_weekly_sales \notin {Absent, NoneVal}

\* C8: a run of one of the five strategies in which a product survives
\* filtering and every product has all its fields never ends in the
\* "Optimization failed" error.
C8_StrategiesReturn ==
    (strategy # "bundle" /\ AllFieldsPresent /\ Survivors # <<>>) => pc # "raised"

\* C9: a run over products whose price is missing does not crash on the
\* missing price.
C9_MissingPriceIsNoCrash ==
    ~(pc = "raised" /\ result.cause = "'Product' object has no attribute 'price'")

\* C10: in every Result, success is true if and only if products_placed is non-empty.
C10_SuccessIffPlaced ==
    result.kind \in {"built", "result"} => (result.success <=> products_placed # <<>>)

\* a returned Result with nothing placed, and so without success
C10_Witness ==
    /\ Returned
    /\ result.kind = "result"
    /\ products_placed = <<>>
    /\ ~result.success

\* ---- two runs that share their Product objects
\* BundleOptimizer.optimize, lines 31-35, and the loop of _extract_bundle_groups
\* (lines 77-107): the groups are collected and bundle_frequency is written on
\* the Product objects.
ExtractGroups ==
    /\ pc = "optimize"
    /\ strategy = "bundle"
    /\ bundle_data # <<>>
    /\ bundle_groups' = GroupsOfRows(bundle_data, queue)
    /\ bundle_frequency' = FrequenciesOfRows(bundle_data, queue, bundle_frequency)
    /\ pc' = "sort_groups"
    /\ UNCHANGED <<inputs, caller, positions, utilization, category_distribution, warnings,
                   self_products_placed, queue, products_placed, products_rejected,
                   category_shelf_assignments, bundle_placements, result>>

\* _extract_bundle_groups, lines 109-113, and optimize, lines 37-39
SortGroups ==
    /\ pc = "sort_groups"
    /\ bundle_groups' = SortGroupsByFrequency(bundle_groups, bundle_frequency)
    /\ products_placed' = <<>>
    /\ products_rejected' = <<>>
    /\ pc' = "place_bundles"
    /\ UNCHANGED <<inputs, caller, positions, utilization, category_distribution, warnings,
                   self_products_placed, queue, category_shelf_assignments,
                   bundle_placements, bundle_frequency, result>>

\* The loop of _extract_bundle_groups in the run of the other optimizer, which
\* was given the same Product objects: it writes its own frequencies on them.
\* Everything else that run writes is in its own store and optimizer.
OtherExtract ==
    /\ run = 2
    /\ other = "start"
    /\ pc \notin {"done", "raised"}
    /\ bundle_frequency' = FrequenciesOfRows(OtherBundleData, [i \in 1..Len(products) |-> i],
                                             bundle_frequency)
    /\ other' = "extracted"
    /\ UNCHANGED <<inputs, run, earlier, call, ret, pc, positions, utilization,
                   category_distribution, warnings, self_products_placed, queue,
                   products_placed, products_rejected, category_shelf_assignments,
                   bundle_groups, bundle_placements, result>>

\* The caller keeps what the run returned when it ran alone and sets up the same
\* run again (a new store, optimizer and Product objects with the same data),
\* this time next to the run of the other optimizer.
Again ==
    /\ pc \in {"done", "raised"}
    /\ run = 1
    /\ run' = 2
    /\ earlier' = Outcome
    /\ pc' = "start"
    /\ positions' = [k \in 1..NumShelves |-> <<>>]
    /\ utilization' = [k \in 1..NumShelves |-> 0]
    /\ category_distribution' = NoCategory
    /\ warnings' = <<>>
    /\ self_products_placed' = <<>>
    /\ queue' = <<>>
    /\ products_placed' = <<>>
    /\ products_rejected' = <<>>
    /\ category_shelf_assignments' = [c \in Categories |-> <<>>]
    /\ bundle_groups' = <<>>
    /\ bundle_placements' = <<>>
    /\ bundle_frequency' = [i \in 1..Len(products) |-> NoneVal]
    /\ result' = NoResult
    /\ UNCHANGED <<inputs, call, ret, other>>

InitPair == Start(PairLists, PairRuns)

NextPair ==
    \/ Reset
    \/ Filter
    \/ ExtractGroups
    \/ SortGroups
    \/ PlaceBundle
    \/ BeginRemaining
    \/ PlaceRemaining
    \/ BundleSpacing
    \/ Return
    \/ CalculateMetrics
    \/ Validate
    \/ Again
    \/ OtherExtract

SpecPair == InitPair /\ [][NextPair]_vars

\* C11: two runs on identical input (same products, same store layout and rules,
\* same strategy, same gap_size, same bundle data) end the same way: identical
\* placements, products_placed, products_rejected, metrics and warnings, or the
\* same error.
C11_SameInputSameOutcome ==
    (run = 2 /\ pc \in {"done", "raised"} /\ products = earlier.products) => Outcome = earlier

C11_Witness ==
    /\ run = 2 /\ pc = "done" /\ products = earlier.products
    /\ Outcome = earlier
    /\ \E k \in 1..NumShelves : Len(positions[k]) >= 2
    /\ bundle_placements # <<>>

\* C12: every run starts from a clean state: when the placement of a run
\* begins, the optimizer holds no warnings, metrics, products_placed, bundle
\* placements or category-to-shelf assignments of an earlier run, and no shelf
\* holds a placement.
C12_CleanStart ==
    pc = "optimize" =>
        /\ \A k \in 1..NumShelves : positions[k] = <<>>
        /\ warnings = <<>>
        /\ category_distribution = NoCategory
        /\ self_products_placed = <<>>
        /\ bundle_placements = <<>>
        /\ \A c \in Categories : category_shelf_assignments[c] = <<>>

\* C12: what a run returns does not depend on an earlier run on the same
\* optimizer: a bundle run over one product, with no bundle to place, puts
\* the product where a first run puts it (the first shelf it fits).
C12_StaleBundleUnseen ==
    (run = 2 /\ pc = "done" /\ strategy = "bundle" /\ Len(products) = 1 /\ bundle_data # <<>>)
        => positions[1] # <<>>
\* C13: under the sales_velocity strategy, in a returned run no product on a
\* shelf has a lower priority score than a rejected product that would fit the
\* space it takes (its width at min_facings is no more than the placement's
\* span) on that shelf (height and depth fit).  The priority score of this
\* strategy is the raw sales figure, product.sales_velocity, the key
\* _optimize_by_sales sorts by and the bump-out compares.
C13_NoLowerPriorityPlaced ==
    (Returned /\ strategy = "sales_velocity") =>
        \A k \in 1..NumShelves : \A i \in 1..Len(positions[k]) :
            \A j \in 1..Len(products_rejected) :
                LET position == positions[k][i]
                    r == P(products_rejected[j])
                    S == store.shelves[k]
                IN  (/\ position.product_id \in Range(products_placed)
                     /\ r.width * r.min_facings <= position.x_end - position.x_start
                     /\ r.height <= S.height /\ r.depth <= S.depth)
                    => P(position.product_id).sales_velocity >= r.sales_velocity

\* a returned sales_velocity run that rejected a product although a product
\* that sells more holds a space the rejected one would fit
C13_Witness ==
    /\ Returned /\ strategy = "sales_velocity"
    /\ \E k \in 1..NumShelves : \E i \in 1..Len(positions[k]) :
        \E j \in 1..Len(products_rejected) :
            LET position == positions[k][i]
                r == P(products_rejected[j])
                S == store.shelves[k]
            IN  /\ position.product_id \in Range(products_placed)
                /\ r.width * r.min_facings <= position.x_end - position.x_start
                /\ r.height <= S.height /\ r.depth <= S.depth
                /\ P(position.product_id).sales_velocity > r.sales_velocity

\* C14: reflow is idempotent.  After shelf.optimize_positions(gap_size), whatever
\* the shelf held, a second call with the same gap_size leaves the positions
\* (order, x_start, x_end, facings) and the utilization as the first call left them.
C14_ReflowIdempotent ==
    call.op = "optimize_positions" =>
        /\ optimize_positions(positions[call.shelf], call.gap_size) = positions[call.shelf]
        /\ positions[call.shelf] # <<>> =>
                update_utilization(positions[call.shelf]) = utilization[call.shelf]

\* a reflow that reordered a shelf filled out of order and moved its products
C14_Witness ==
    /\ call.op = "optimize_positions"
    /\ Len(positions[call.shelf]) = 2
    /\ [i \in 1..2 |-> positions[call.shelf][i].product_id]
         # [i \in 1..2 |-> call.before[call.shelf][i].product_id]
    /\ positions[call.shelf][1].x_start = 0
    /\ optimize_positions(positions[call.shelf], call.gap_size) = positions[call.shelf]

\* C19: _place_product_on_shelf either returns True and has added exactly one
\* placement of the product to the shelf, starting at gap_size on an empty shelf
\* and otherwise at the right edge of the rightmost placement plus gap_size, or
\* returns False and leaves the positions and the utilization of every shelf as
\* they were; it returns False whenever the span with a trailing gap exceeds the
\* shelf width at the facings asked for and at the product's min_facings.
C19_AddPlacementFrame ==
    call.op = "_place_product_on_shelf" =>
        LET k == call.shelf
            before == call.before[k]
            p == P(call.product_id)
            RightEdge == CHOOSE x \in {before[i].x_end : i \in 1..Len(before)} :
                            \A i \in 1..Len(before) : before[i].x_end <= x
            x_start == IF before = <<>> THEN gap_size ELSE RightEdge + gap_size
            Exceeds(f) == x_start + p.width * f + gap_size > store.shelves[k].width
        IN  /\ ret => /\ Len(positions[k]) = Len(before) + 1
                      /\ SubSeq(positions[k], 1, Len(before)) = before
                      /\ positions[k][Len(positions[k])].product_id = p.product_id
                      /\ positions[k][Len(positions[k])].x_start = x_start
                      /\ \A j \in 1..NumShelves : j # k => positions[j] = call.before[j]
            /\ ~ret => positions = call.before /\ utilization = call.utilization
            /\ (Exceeds(call.facings) /\ Exceeds(Max(1, p.min_facings))) => ~ret

\* a product placed after another one, at fewer facings than asked for because
\* the span asked for would not leave the trailing gap
C19_Witness ==
    /\ call.op = "_place_product_on_shelf"
    /\ ret
    /\ Len(call.before[call.shelf]) >= 1
    /\ positions[call.shelf][Len(positions[call.shelf])].x_start
         = MaxEnd(call.before[call.shelf]) + gap_size
    /\ positions[call.shelf][Len(positions[call.shelf])].facings < call.facings

\* C20: a call of _force_place_high_priority_product that returns False leaves
\* every shelf holding the same products with the same facings as before the
\* call, and leaves products_placed naming only products that are on a shelf.
C20_FailedBumpRestores ==
    (call.op = "_force_place_high_priority_product" /\ ~ret) =>
        LET Held(ps) == {<<ps[i].product_id, ps[i].facings>> : i \in 1..Len(ps)}
        IN  /\ \A k \in 1..NumShelves :
                    /\ Len(positions[k]) = Len(call.before[k])
                    /\ Held(positions[k]) = Held(call.before[k])
            /\ \A id \in Range(products_placed) :
                    \E k \in 1..NumShelves : \E i \in 1..Len(positions[k]) :
                        positions[k][i].product_id = id

\* C15: Scenario A.  On one shelf of width 100 with gap 2, a balanced run given
\* A (width 10, velocity 50) and B (width 10, velocity 10), with the facing
\* limits the constructor gives them (1..2 and 1..1), places A before B and both; in the returned store both have a
\* placement on the shelf and the placement of A spans [2, 2 + 10 * facings).
C15_ScenarioA ==
    (/\ Returned
     /\ strategy = "balanced"
     /\ store = Store("flagship", OneShelf, NoRules, FALSE)
     /\ gap_size = 2
     /\ products = <<[KindA EXCEPT !.product_id = 1], [KindB EXCEPT !.product_id = 2]>>)
    => /\ products_placed = <<1, 2>>
       /\ \A id \in {1, 2} : \E i \in 1..Len(positions[1]) : positions[1][i].product_id = id
       /\ \A i \in 1..Len(positions[1]) :
            positions[1][i].product_id = 1 =>
                /\ positions[1][i].x_start = 2
                /\ positions[1][i].x_end = 2 + 10 * positions[1][i].facings

\* C16: Scenario C.  A bundle run is given the two products of one bundle; their
\* combined width with the gap between them exceeds the width of every shelf,
\* the store has two shelves less than 10 apart vertically, and the first
\* product fits the lower shelf, the second the upper one.  Then the run
\* returns with the first product on the lower shelf and the second on the
\* upper one, both in products_placed, and exactly one warning noting the split.
C16_ScenarioC ==
    LET lower == SortedBy(ShelfOrder, ByYPosition)[1]
        upper == SortedBy(ShelfOrder, ByYPosition)[2]
        Span(id) == P(id).width * calculate_facings(P(id))
        Distance == store.shelves[upper].y_position
                      - (store.shelves[lower].y_position + store.shelves[lower].height)
        FitsAlone(id, k) ==
            /\ P(id).height <= store.shelves[k].height
            /\ P(id).depth <= store.shelves[k].depth
            /\ gap_size + Span(id) + gap_size <= store.shelves[k].width
        Holds(k, id) ==
            /\ Len(positions[k]) = 1
            /\ positions[k][1].product_id = id
            /\ positions[k][1].x_end - positions[k][1].x_start = Span(id)
    IN  (/\ pc \in {"done", "raised"}
         /\ strategy = "bundle"
         /\ Len(products) = 2
         /\ bundle_data # <<>>
         /\ \A i \in 1..Len(bundle_data) : bundle_data[i].ids = <<1, 2>>
         /\ NumShelves = 2
         /\ \A k \in 1..NumShelves : Span(1) + Span(2) + gap_size > store.shelves[k].width
         /\ Distance < 10 /\ -Distance < 10
         /\ FitsAlone(1, lower)
         /\ FitsAlone(2, upper))
        => /\ pc = "done"
           /\ Holds(lower, 1)
           /\ Holds(upper, 2)
           /\ products_placed = <<1, 2>>
           /\ Cardinality({i \in 1..Len(warnings) : warnings[i].kind = "split_bundle"}) = 1

\* two wide cases of one bundle, one on each of two shelves 5 apart
C16_Witness ==
    /\ pc = "done"
    /\ strategy = "bundle"
    /\ Len(products) = 2
    /\ NumShelves = 2
    /\ P(1).width + P(2).width + gap_size > 60
    /\ Len(positions[1]) = 1 /\ positions[1][1].product_id = 1
    /\ Len(positions[2]) = 1 /\ positions[2][1].product_id = 2
    /\ warnings = <<Warning("split_bundle", 1)>>

\* C17: a run that shares its Product objects with a run on another store,
\* interleaved with it in any way, returns the same placements, products_placed
\* and products_rejected as when it runs alone.
C17_InterleavingUnseen ==
    (run = 2 /\ pc = "done" /\ earlier.result.kind = "result") =>
        /\ positions = earlier.positions
        /\ products_placed = earlier.products_placed
        /\ products_rejected = earlier.products_rejected

\* C18: validation flags every facing-bounds violation.  When a run returns and
\* a shelf of the store holds a placement whose facings are below min_facings
\* or above max_facings of its product, the warnings of the result hold a
\* finding about the facings of that product.
C18_FacingBoundsFlagged ==
    Returned =>
        \A k \in 1..NumShelves : \A i \in 1..Len(positions[k]) :
            LET pos == positions[k][i]
                p == P(pos.product_id)
            IN  (pos.facings < p.min_facings \/ pos.facings > p.max_facings) =>
                    \E w \in 1..Len(warnings) :
                        /\ warnings[w].kind \in {"insufficient_facings", "too_many_facings"}
                        /\ warnings[w].ref = pos.product_id

\* C21: bump-out never displaces a product in favour of one with equal or lower
\* priority.  When _force_place_high_priority_product has placed the new
\* product, every product that was on a shelf before the call and is on none
\* after it has a strictly lower sales velocity than the new product.
C21_BumpedForHigherVelocity ==
    (call.op = "_force_place_high_priority_product" /\ ret) =>
        LET OnShelves(ps) == UNION {{ps[k][i].product_id : i \in 1..Len(ps[k])} : k \in 1..NumShelves}
        IN  \A id \in OnShelves(call.before) \ OnShelves(positions) :
                P(id).sales_velocity < P(call.product_id).sales_velocity

\* a product bumped out of a full shelf by one that sells more
C21_Witness ==
    /\ call.op = "_force_place_high_priority_product"
    /\ ret
    /\ \E k \in 1..NumShelves : \E i \in 1..Len(call.before[k]) :
            /\ \A j \in 1..NumShelves : \A n \in 1..Len(positions[j]) :
                    positions[j][n].product_id # call.before[k][i].product_id
            /\ P(call.before[k][i].product_id).sales_velocity < P(call.product_id).sales_velocity
    /\ \E k \in 1..NumShelves : \E i \in 1..Len(positions[k]) :
            positions[k][i].product_id = call.product_id

\* C22: no product is rejected while it could still be placed at its minimum
\* facings.  Whenever a step of a run appends a product to products_rejected,
\* _place_product_on_shelf of that product at min_facings fails on every shelf
\* of the store, with the shelves as they are when the step is taken.
C22_RejectedFitsNowhere ==
    [][Len(products_rejected') = Len(products_rejected) + 1 =>
        \A k \in 1..NumShelves :
            ~_place_product_on_shelf(Engine, k, P(products_rejected'[Len(products_rejected')]),
                                     Max(1, P(products_rejected'[Len(products_rejected')]).min_facings)).ok]_vars

\* C23: bundle placement is all-or-nothing.  A turn of the bundle loop that
\* reports the bundle as not placed leaves the positions of every shelf as
\* they were before the turn; a turn that commits the bundle leaves every
\* member of the bundle on a shelf.
C23_BundleAllOrNothing ==
    [][(pc = "place_bundles" /\ bundle_groups # <<>> /\ pc' = "place_bundles") =>
        /\ (/\ Len(warnings') > Len(warnings)
            /\ warnings'[Len(warnings')].kind = "bundle_not_placed") => positions' = positions
        /\ products_placed' # products_placed =>
                \A m \in 1..Len(Head(bundle_groups)) :
                    \E k \in 1..NumShelves : \E i \in 1..Len(positions'[k]) :
                        positions'[k][i].product_id = Head(bundle_groups)[m]]_vars

\* C24: at the end of a bundle run no product has more than one placement
\* across the shelves of the store.
C24_PlacedAtMostOnce ==
    (Returned /\ strategy = "bundle" /\ bundle_data # <<>>) =>
        \A k1, k2 \in 1..NumShelves :
            \A i1 \in 1..Len(positions[k1]) : \A i2 \in 1..Len(positions[k2]) :
                positions[k1][i1].product_id = positions[k2][i2].product_id
                    => (k1 = k2 /\ i1 = i2)

\* C25: every placement on a shelf of the store a run returns is of a product
\* that fits the shelf: product.height <= shelf.height and product.depth <= shelf.depth.
C25_PlacedProductsFitShelf ==
    Returned =>
        \A k \in 1..NumShelves : \A i \in 1..Len(positions[k]) :
            /\ P(positions[k][i].product_id).height <= store.shelves[k].height
            /\ P(positions[k][i].product_id).depth <= store.shelves[k].depth

\* C26: load balancing only relocates placements.  After _balance_shelf_loads,
\* every product that was on a shelf before the pass is on exactly one shelf,
\* with the facings it had; a product that changed shelf came from a shelf
\* above 85% utilization and went to a shelf below 40%.
C26_BalanceOnlyRelocates ==
    call.op = "_balance_shelf_loads" =>
        LET Held(ps, k) == {<<ps[k][i].product_id, ps[k][i].facings>> : i \in 1..Len(ps[k])}
            Over(k) == call.utilization[k] * 100 > 85 * store.shelves[k].width
            Under(k) == call.utilization[k] * 100 < 40 * store.shelves[k].width
        IN  \A k \in 1..NumShelves : \A held \in Held(call.before, k) :
                /\ Cardinality({j \in 1..NumShelves : held \in Held(positions, j)}) = 1
                /\ \A j \in 1..NumShelves :
                        (j # k /\ held \in Held(positions, j)) => (Over(k) /\ Under(j))

\* C27: products are attempted in descending order of the score the strategy
\* sorts by, and products with equal score are attempted in the order of the
\* list given to the engine (product_id is the place in that list).  The queue
\* of a placement loop holds the products still to be attempted, in order.
C27_AttemptedByScoreThenInputOrder ==
    LET InOrder(Higher(_, _)) ==
            \A i, j \in 1..Len(queue) :
                i < j => /\ ~Higher(queue[j], queue[i])
                         /\ (~Higher(queue[i], queue[j]) => queue[i] < queue[j])
    IN  /\ pc = "place_sales" => InOrder(BySalesVelocity)
        /\ pc = "place_value" => InOrder(ByValueDensity)
        /\ pc = "place_balanced" => InOrder(ByCompositeScore)

\* C28: whatever the strategy, a run that returns a Result went through Reset,
\* Filter, Sort, PlaceAll, PostOptimize and Validate in that order.  Reset,
\* Filter, the metrics and Validate are fixed by the program counter; what is
\* left to hold is that the strategy hands its placements to the metrics only
\* from the state PostOptimize leaves.
C28_PhasesInOrder ==
    [][pc' = "metrics" => pc = "return_balanced"]_vars

\* C29: in the metrics of every Result, the facing total reported for a
\* category is the sum of the facings of the placements of that category's
\* products that are on the shelves at the end of the run.
C29_CategoryTotalsMatchShelves ==
    (Returned /\ result.kind = "result") =>
        \A c \in Categories :
            result.category_distribution[c] =
                SumSeq([i \in 1..Len(AllPositions) |->
                          IF P(AllPositions[i].product_id).category = c
                          THEN AllPositions[i].facings ELSE 0])

\* C30: at the end of a bundle run the members of a bundle placed whole on one
\* shelf (an entry of bundle_placements) are adjacent on that shelf in bundle
\* order, with no other product between them and exactly gap_size between one
\* member and the next.
C30_BundleStaysContiguous ==
    (Returned /\ result.kind = "result" /\ strategy = "bundle" /\ bundle_data # <<>>) =>
        \A b \in 1..Len(bundle_placements) :
            \A k \in {j \in 1..NumShelves : store.shelves[j].shelf_id = bundle_placements[b].shelf_id} :
                LET ids == bundle_placements[b].ids
                    ps == SortedBy(positions[k], ByXStart)
                IN  \E first \in 1..Len(ps) :
                        /\ first + Len(ids) - 1 <= Len(ps)
                        /\ \A m \in 1..Len(ids) : ps[first + m - 1].product_id = ids[m]
                        /\ \A m \in 1..(Len(ids) - 1) :
                                ps[first + m].x_start - ps[first + m - 1].x_end = gap_size
====
